---------------------------- MODULE Spec2Model ----------------------------
(***************************************************************************)
(* A model of libass' ass_render.c as shipped in PyonFX: the collision     *)
(* resolver (fit_rect, fix_collisions, shift_event), the frame assembler   *)
(* (ass_render_frame, ass_detect_change) and the line wrapper              *)
(* (wrap_lines_smart, trim_whitespace, measure_text) and the quantizers of  *)
(* the bitmap cache keys (quantize_blur, quantize_transform), the style    *)
(* resolver (handle_selective_style_overrides) and the life of the render  *)
(* context, the caches and the image lists over the frames.                *)
(*                                                                         *)
(* Each component has its own variables and its own specification; a       *)
(* specification leaves the variables of the other components at their     *)
(* idle value.                                                             *)
(***************************************************************************)
EXTENDS Integers, Sequences, FiniteSets, TLC

VARIABLES
    \* ---- fit_rect on its own (SpecFit) ----
    fit_s,          \* the free box handed to fit_rect
    fit_fixed,      \* the fixed list handed to fit_rect
    fit_out,        \* the fixed list when fit_rect returned
    fit_dir,        \* 1: move down, -1: move up
    fit_shift,      \* the value returned
    fit_pc,         \* "call" before fit_rect ran, "ret" after
    \* ---- fix_collisions on one layer group, frame after frame (SpecCollide) ----
    render_id,      \* ASS_Renderer.render_id
    event_priv,     \* ASS_Event.render_priv of every event of the group
    eimgs_in,       \* the EventImages array handed to the last fix_collisions
    eimgs,          \* the same array when fix_collisions returned
    used,           \* the used[] list when fix_collisions returned
    used_by,        \* the events whose box fix_collisions put into used[]
    priv_in,        \* event_priv when the last fix_collisions was entered
    fc_pc,          \* "idle" before any frame, "fixed" after a fix_collisions
    \* ---- ass_detect_change on its own (SpecDetect) ----
    dc_prev,        \* the list at prev_images_root
    dc_cur,         \* the list at images_root
    dc_diff,        \* the value returned
    dc_pc,          \* "call" before ass_detect_change ran, "ret" after
    \* ---- ass_render_frame, frame after frame (SpecFrame) ----
    settings,       \* frame_width, frame_height, fontselect, and whether the
                    \* track handed in belongs to the renderer's library
    track,          \* the events of the track, in track order
    eimg,           \* ASS_Renderer.eimg, the EventImages slots
    eimg_size,      \* ASS_Renderer.eimg_size
    images_root,    \* ASS_Renderer.images_root
    prev_images_root, \* ASS_Renderer.prev_images_root
    fr_now,         \* the timestamp of the last ass_render_frame call
    fr_attempted,   \* the events ass_render_event was called on, in call order
    fr_rendered,    \* those for which it returned true, in call order
    fr_slot_event,  \* the event field of the slots read after the loop
    fr_change,      \* what was written to *detect_change (-1: nothing)
    fr_ret,         \* what ass_render_frame returned
    fr_pc,          \* "idle" between calls, "done" when a call returned
    fr_count,       \* the number of ass_render_frame calls so far
    \* ---- wrap_lines_smart on one text (SpecWrap) ----
    w_glyphs,       \* text_info->glyphs[0 .. length - 1]
    w_max_text_width, \* the parameter max_text_width
    w_wrap_style,   \* render_priv->state.wrap_style
    w_line_spacing, \* render_priv->settings.line_spacing
    w_n_lines,      \* text_info->n_lines
    w_lines,        \* text_info->lines
    w_height,       \* text_info->height
    w_exit,         \* the local exit of wrap_lines_smart
    w_after_wrap,   \* the glyphs as step 1 left them
    w_passes,       \* the number of passes of the balancing loop so far
    w_moves,        \* the number of words moved so far
    w_emptied,      \* whether a move took the only word of a line
    w_counted,      \* whether n_lines matched the markers after every move
    w_assert_ok,    \* whether measure_text's assertion held
    w_beyond,       \* whether the glyph behind the text was read or written
    w_pc,           \* "wrap", "balance", "done"
    \* ---- the filter of a run (SpecBlur) ----
    bl_radius,      \* the radius handed to quantize_blur, a fraction
    bl_shadow,      \* info->shadow_x/y * border_scale in 1/128 pixel
    bl_border,      \* FILTER_NONZERO_BORDER
    bl_fill_in,     \* FILTER_FILL_IN_SHADOW
    bl_x,           \* the offsets x, y of lines 1939-1940 in 1/64 pixel
    bl_mask,        \* the shadow_mask quantize_blur stored
    bl_filter,      \* the FilterDesc of the run: blur, shadow flag, shadow
    bl_pc,          \* "idle" before a run was opened, "run" after
    \* ---- a bitmap key and its restored matrix (SpecTransform) ----
    qt_m,           \* the matrix handed to quantize_transform
    qt_bbox,        \* key->outline->cbox
    qt_offset,      \* *offset when quantize_transform was entered
    qt_first,       \* the argument first
    qt_out,         \* what quantize_transform returned and stored
    qt_restored,    \* the matrix restore_transform made of the key
    qt_pc,          \* "idle" before quantize_transform ran, "done" after
    \* ---- the effective style of an event (SpecStyle) ----
    so_requested,   \* settings.selective_style_overrides, the set of its bits
    so_explicit,    \* state.explicit: the event is explicitly positioned
    so_rstyle,      \* the argument rstyle: <<>> for NULL, <<s>> for the style s
    so_PlayResY,    \* track->PlayResY
    so_user,        \* user_override_style
    so_state,       \* state.style, state.overrides, state.apply_font_scale
    so_pc,          \* "idle" before the call, "done" after
    \* ---- the renderer over its frames (SpecLife) ----
    lf_settings,    \* what ass_start_frame tests of the renderer
    lf_track,       \* the events of the track
    lf_ctx,         \* the render context: state.font etc. and text_info.length
    lf_root,        \* images_root, a list number or 0
    lf_prev_root,   \* prev_images_root
    lf_lists,       \* the image lists: ref_count of the head, allocated, freed
    lf_caller,      \* the references the caller holds on each list
    lf_known,       \* the accepted frame that returned each list, 0 for none
    lf_op,          \* the caller's last call, its argument, lf_lists before it
    lf_api,         \* the entry point of the current call
    lf_now,         \* the argument now
    lf_i,           \* the loop index i, counted from 1
    lf_cnt,         \* cnt
    lf_cuts,        \* the caches cut in this call and how many events were rendered before
    lf_events,      \* the ass_render_event calls of this call
    lf_ret,         \* what the call returns: a list number, or the count of glyphs
    lf_frames,      \* the calls of ass_render_frame and ass_glyph_info so far
    lf_accepted,    \* those of them ass_start_frame accepted
    lf_pc,          \* "idle", "loop" inside the loop, "done" at the return, "gone"
    lf_priv,        \* render_priv->track, ->time and ->font_scale_x
    lf_change,      \* what was written to *detect_change (-1: nothing, -2: not yet)
    \* ---- shift_event on one event (SpecShift) ----
    sh_in,          \* the EventImages before the call
    sh_shift,       \* the argument shift
    sh_out,         \* the EventImages after the call
    sh_pc,          \* "idle" or "shifted"
    \* ---- align_lines on one text (SpecAlign) ----
    al_in,          \* the glyphs before the call
    al_alignment,   \* state.alignment & 3
    al_justify,     \* state.justify
    al_hscroll,     \* evt_type & EVENT_HSCROLL
    al_max_text_width,\* the argument max_text_width, in 1/64 pixel
    al_out,         \* the glyphs after the call, the lines and max_width
    al_pc,          \* "idle" or "aligned"
    \* ---- the glyphs of one event (SpecGlyphs) ----
    gl_in,          \* the glyphs before render_and_combine_glyphs
    gl_out,         \* the glyphs and the run records after it
    gl_reads,       \* the outline ass_glyph_info read through, per glyph
    gl_crashed,     \* a read through NULL ended the program
    gl_pc           \* "idle", "combined", "copied"

fitVars == <<fit_s, fit_fixed, fit_out, fit_dir, fit_shift, fit_pc>>
collideVars ==
    <<render_id, event_priv, eimgs_in, eimgs, used, used_by, priv_in, fc_pc>>
detectVars == <<dc_prev, dc_cur, dc_diff, dc_pc>>
frameVars ==
    <<settings, track, eimg, eimg_size, images_root, prev_images_root, fr_now,
      fr_attempted, fr_rendered, fr_slot_event, fr_change, fr_ret, fr_pc,
      fr_count>>
wrapVars ==
    <<w_glyphs, w_max_text_width, w_wrap_style, w_line_spacing, w_n_lines, w_lines,
      w_height, w_exit, w_after_wrap, w_passes, w_moves, w_emptied, w_counted,
      w_assert_ok, w_beyond, w_pc>>
blurVars ==
    <<bl_radius, bl_shadow, bl_border, bl_fill_in, bl_x, bl_mask,
      bl_filter, bl_pc>>
transformVars ==
    <<qt_m, qt_bbox, qt_offset, qt_first, qt_out, qt_restored, qt_pc>>
styleVars ==
    <<so_requested, so_explicit, so_rstyle, so_PlayResY, so_user, so_state,
      so_pc>>
lifeVars ==
    <<lf_settings, lf_track, lf_ctx, lf_root, lf_prev_root, lf_lists,
      lf_caller, lf_known, lf_op, lf_api, lf_now, lf_i, lf_cnt, lf_cuts,
      lf_events, lf_ret, lf_frames, lf_accepted, lf_pc, lf_priv, lf_change>>
shiftVars ==
    <<sh_in, sh_shift, sh_out, sh_pc>>
alignVars ==
    <<al_in, al_alignment, al_justify, al_hscroll, al_max_text_width,
      al_out, al_pc>>
glyphVars ==
    <<gl_in, gl_out, gl_reads, gl_crashed, gl_pc>>
vars ==
    <<fitVars, collideVars, detectVars, frameVars, wrapVars, blurVars, transformVars, styleVars, lifeVars, shiftVars, alignVars,
      glyphVars>>

-----------------------------------------------------------------------------
(* Bounds of the model *)

\* fit_rect alone: top edges range over 0..FitMaxTop, left edges over
\* 0..FitMaxLeft, heights and widths over 1..FitMaxSize, and the fixed list
\* holds at most FitMaxFixed boxes
FitMaxTop == 3
FitMaxLeft == 1
FitMaxSize == 2
FitMaxFixed == 3
\* fix_collisions: the layer group holds events 1..NEvents; an input box has
\* top in 0..MaxTop, left in 0..MaxLeft, height in 0..MaxHeight and width in
\* 0..MaxWidth; the frame is FrameHeight rows high
NEvents == 2
MaxTop == 1
MaxLeft == 1
MaxHeight == 2
MaxWidth == 1
FrameHeight == 3
\* ass_detect_change alone: the two lists hold at most DcMaxImgs images
DcMaxImgs == 2
\* ass_render_frame: the track holds up to NEvents events with Start in
\* 0..MaxStart, Duration in 0..MaxDuration, Layer in 0..MaxLayer and a style
\* index in 0..NStyles (the track has NStyles styles); frames are rendered at
\* the timestamps 0..MaxNow
MaxStart == 1
MaxDuration == 1
MaxLayer == 1
NStyles == 1
MaxNow == 2
\* ass_render_frame is called at most this often
MaxFrames == 2
\* wrap_lines_smart: texts of up to MaxTextLen glyphs; a narrow letter and a
\* space advance by NarrowAdv, a wide letter by WideAdv; glyph ascenders go up
\* to MaxAsc; max_text_width is in MinTextWidth..MaxTextWidth; line_spacing is
\* 0 or LineSpacing; rows of one-letter words have up to WordRowLen glyphs; the
\* balancing loop is followed for MaxPasses passes
MaxTextLen == 5
NarrowAdv == 1
WideAdv == 4
MaxAsc == 3
MinTextWidth == 5
MaxTextWidth == 7
LineSpacing == 2
WordRowLen == 11
MaxPasses == 6
\* eimg_size grows by this much
EimgGrow == 100
\* the renderer is asked for at most this many frames
MaxLifeFrames == 2
\* the caller holds at most this many references on a list
MaxCallerRefs == 1
\* shift_event is called with shifts of at most this many rows either way
MaxShift == 5
\* align_lines: the longest text, in glyphs
MaxAlignLen == 3
\* render_and_combine_glyphs: the longest text, in glyphs
MaxGlyphs == 2
\* the renderer is reconfigured at most this often
MaxRenderId == 1

-----------------------------------------------------------------------------
(* Rect and the overlap arithmetic *)

Rect(x0, y0, x1, y1) == [x0 |-> x0, y0 |-> y0, x1 |-> x1, y1 |-> y1]

\* overlap(): 1 iff the two boxes intersect with positive area
overlap(s1, s2) ==
    ~(s1.y0 >= s2.y1 \/ s2.y0 >= s1.y1 \/ s1.x0 >= s2.x1 \/ s2.x0 >= s1.x1)

\* the inline test of fit_rect: the box s moved by shift misses fixed box f
FitMisses(s, f, shift) ==
    \/ s.y1 + shift <= f.y0
    \/ s.y0 + shift >= f.y1
    \/ s.x1 <= f.x0
    \/ s.x0 >= f.x1

\* qsort(fixed, cnt, sizeof(*fixed), cmp_rect_y0), as an insertion sort:
\* InsertY0 puts r before the first element with a larger y0.
RECURSIVE InsertY0(_, _)
InsertY0(r, sorted) ==
    IF sorted = <<>> THEN <<r>>
    ELSE IF r.y0 < Head(sorted).y0 THEN <<r>> \o sorted
    ELSE <<Head(sorted)>> \o InsertY0(r, Tail(sorted))

RECURSIVE SortY0(_)
SortY0(rs) ==
    IF rs = <<>> THEN <<>>
    ELSE InsertY0(rs[Len(rs)], SortY0(SubSeq(rs, 1, Len(rs) - 1)))

\* the list is in cmp_rect_y0 order
SortedY0(rs) == \A i \in 1..(Len(rs) - 1) : rs[i].y0 <= rs[i + 1].y0

\* a fit_rect whose downward scan stops at the first fixed box it had to clear
RECURSIVE FitDown_FirstOnly(_, _, _, _)
FitDown_FirstOnly(s, fixed, i, shift) ==
    IF i > Len(fixed) THEN shift
    ELSE IF FitMisses(s, fixed[i], shift) THEN FitDown_FirstOnly(s, fixed, i + 1, shift)
    ELSE fixed[i].y1 - s.y0

\* fit_rect, dir == 1: scan the fixed boxes by ascending index
RECURSIVE FitDown(_, _, _, _)
FitDown(s, fixed, i, shift) ==
    IF i > Len(fixed) THEN shift
    ELSE IF FitMisses(s, fixed[i], shift) THEN FitDown(s, fixed, i + 1, shift)
    ELSE FitDown(s, fixed, i + 1, fixed[i].y1 - s.y0)

\* a fit_rect whose upward scan aligns the top edges instead of putting the
\* box above the fixed one
RECURSIVE FitUp_TopToTop(_, _, _, _)
FitUp_TopToTop(s, fixed, i, shift) ==
    IF i < 1 THEN shift
    ELSE IF FitMisses(s, fixed[i], shift) THEN FitUp_TopToTop(s, fixed, i - 1, shift)
    ELSE FitUp_TopToTop(s, fixed, i - 1, fixed[i].y0 - s.y0)

\* fit_rect, dir == -1: scan the fixed boxes by descending index
RECURSIVE FitUp(_, _, _, _)
FitUp(s, fixed, i, shift) ==
    IF i < 1 THEN shift
    ELSE IF FitMisses(s, fixed[i], shift) THEN FitUp(s, fixed, i - 1, shift)
    ELSE FitUp(s, fixed, i - 1, fixed[i].y0 - s.y1)

\* the shift fit_rect computes
FitShift(s, fixed, dir) ==
    IF dir = 1 THEN FitDown(s, fixed, 1, 0)
    ELSE FitUp(s, fixed, Len(fixed), 0)

\* fit_rect: the shift, and the fixed list with the shifted box added and sorted
fit_rect(s, fixed, dir) ==
    LET shift == FitShift(s, fixed, dir)
        placed == Rect(s.x0, s.y0 + shift, s.x1, s.y1 + shift)
    IN  [shift |-> shift, fixed |-> SortY0(Append(fixed, placed))]

-----------------------------------------------------------------------------
(* SpecFit: fit_rect applied to every bounded free box and fixed list *)

FitBoxes ==
    { Rect(x, y, x + w, y + h) :
        x \in 0..FitMaxLeft, y \in 0..FitMaxTop, w \in 1..FitMaxSize, h \in 1..FitMaxSize }

\* the lists fix_collisions hands to fit_rect: in cmp_rect_y0 order (any order
\* among equal top edges, as qsort leaves them) and pairwise non-overlapping
FitLists ==
    UNION { { fs \in [1..n -> FitBoxes] :
                /\ SortedY0(fs)
                /\ \A i, j \in 1..n : i < j => ~overlap(fs[i], fs[j]) } :
            n \in 0..FitMaxFixed }

FitIdle ==
    /\ fit_s = Rect(0, 0, 0, 0)
    /\ fit_fixed = <<>>
    /\ fit_out = <<>>
    /\ fit_dir = 1
    /\ fit_shift = 0
    /\ fit_pc = "idle"

FitInit ==
    /\ fit_s \in FitBoxes
    /\ fit_fixed \in FitLists
    /\ fit_dir \in {1, -1}
    /\ fit_out = <<>>
    /\ fit_shift = 0
    /\ fit_pc = "call"

\* shift = fit_rect(&s, fixed, &cnt, dir)
FitRect ==
    /\ fit_pc = "call"
    /\ LET r == fit_rect(fit_s, fit_fixed, fit_dir)
       IN  /\ fit_shift' = r.shift
           /\ fit_out' = r.fixed
    /\ fit_pc' = "ret"
    /\ UNCHANGED <<fit_s, fit_fixed, fit_dir>>

-----------------------------------------------------------------------------
(* ASS_Image, ass_image_compare, ass_detect_change *)

\* the fields of ASS_Image the renderer reads; bitmap is the address of the
\* first row
Image(w, h, stride, color, bitmap, dst_x, dst_y) ==
    [w |-> w, h |-> h, stride |-> stride, color |-> color, bitmap |-> bitmap,
     dst_x |-> dst_x, dst_y |-> dst_y]

\* an ass_image_compare that does not look at the bitmap pointer
ass_image_compare_NoBitmap(i1, i2) ==
    IF i1.w # i2.w THEN 2
    ELSE IF i1.h # i2.h THEN 2
    ELSE IF i1.stride # i2.stride THEN 2
    ELSE IF i1.color # i2.color THEN 2
    ELSE IF i1.dst_x # i2.dst_x THEN 1
    ELSE IF i1.dst_y # i2.dst_y THEN 1
    ELSE 0

\* ass_image_compare: 0 identical, 1 different position, 2 different content
ass_image_compare(i1, i2) ==
    IF i1.w # i2.w THEN 2
    ELSE IF i1.h # i2.h THEN 2
    ELSE IF i1.stride # i2.stride THEN 2
    ELSE IF i1.color # i2.color THEN 2
    ELSE IF i1.bitmap # i2.bitmap THEN 2
    ELSE IF i1.dst_x # i2.dst_x THEN 1
    ELSE IF i1.dst_y # i2.dst_y THEN 1
    ELSE 0

\* the loop of ass_detect_change with img at prev[i] and img2 at cur[i]; the
\* result is [diff, img2], img2 being the index the loop leaves img2 at (0:
\* NULL)
RECURSIVE DetectLoop(_, _, _, _)
DetectLoop(prev, cur, i, diff) ==
    IF ~(i <= Len(prev) /\ diff < 2)
    THEN [diff |-> diff, img2 |-> IF i <= Len(cur) THEN i ELSE 0]
    ELSE IF i <= Len(cur)
         THEN LET d == ass_image_compare(prev[i], cur[i])
              IN  DetectLoop(prev, cur, i + 1, IF d > diff THEN d ELSE diff)
         ELSE [diff |-> 2, img2 |-> 0]

\* an ass_detect_change without the test after the loop
ass_detect_change_NoTail(prev, cur) == DetectLoop(prev, cur, 1, 0).diff

\* ass_detect_change: prev is the list at prev_images_root, cur the one at
\* images_root
ass_detect_change(prev, cur) ==
    LET r == DetectLoop(prev, cur, 1, 0)
    IN  IF r.img2 # 0 THEN 2 ELSE r.diff

-----------------------------------------------------------------------------
(* shift_event, get_render_priv, fix_collisions *)

Events == 1..NEvents

\* event->render_priv == NULL
NoPriv == [render_id |-> -1, top |-> 0, height |-> 0, left |-> 0, width |-> 0]

\* calloc(1, sizeof(ASS_RenderPriv)), and the memset of a stale record
ZeroPriv(rid) == [render_id |-> rid, top |-> 0, height |-> 0, left |-> 0, width |-> 0]

\* a get_render_priv that keeps a record of another render_id
get_render_priv_KeepStale(rid, priv) ==
    IF priv = NoPriv THEN ZeroPriv(rid) ELSE priv

\* get_render_priv: allocate the record on first use, zero it and tag it with
\* the renderer's render_id when it carries another one (calloc is taken to
\* succeed)
get_render_priv(rid, priv) ==
    LET p == IF priv = NoPriv THEN ZeroPriv(0) ELSE priv
    IN  IF rid # p.render_id THEN ZeroPriv(rid) ELSE p

\* a shift_event that does not clip at the bottom of the frame
ShiftImage_NoBottomClip(img, shift, height) ==
    LET y1 == img.dst_y + shift
        top_clip == IF y1 < 0 THEN -y1 ELSE 0
        h1 == img.h - top_clip
    IN  [img EXCEPT !.dst_y = IF h1 <= 0 THEN 0 ELSE IF y1 < 0 THEN 0 ELSE y1,
                    !.h = IF h1 <= 0 THEN 0 ELSE h1,
                    !.bitmap = img.bitmap + top_clip * img.stride]

\* the body of shift_event's loop: one image moved by shift and clipped to
\* the rows 0..height-1 of the frame
ShiftImage(img, shift, height) ==
    LET y1 == img.dst_y + shift
        top_clip == IF y1 < 0 THEN -y1 ELSE 0
        h1 == img.h - top_clip
        b1 == img.bitmap + top_clip * img.stride
        y2 == IF y1 < 0 THEN 0 ELSE y1
        h2 == IF y2 + h1 >= height THEN h1 - (y2 + h1 - height) ELSE h1
    IN  [img EXCEPT !.dst_y = IF h2 <= 0 THEN 0 ELSE y2,
                    !.h = IF h2 <= 0 THEN 0 ELSE h2,
                    !.bitmap = b1]

\* shift_event: every image of the event, then the event's top
shift_event(height, ei, shift) ==
    [ei EXCEPT !.imgs = [k \in 1..Len(ei.imgs) |-> ShiftImage(ei.imgs[k], shift, height)],
               !.top = ei.top + shift]

\* a fix_collisions that forgets the detect_collisions flag
Participates_NoFlag(ei) == ei.height # 0 /\ ei.width # 0

\* the test both loops of fix_collisions start with: the event takes part
Participates(ei) == ei.detect_collisions /\ ei.height # 0 /\ ei.width # 0

PrivRect(p) == Rect(p.left, p.top, p.left + p.width, p.top + p.height)

EventRect(ei) == Rect(ei.left, ei.top, ei.left + ei.width, ei.top + ei.height)

\* first loop of fix_collisions, from index i on: fill used[] with the events
\* that are still fixed.  st = [imgs, priv, used, by]
RECURSIVE FixedPass(_, _, _)
FixedPass(rid, i, st) ==
    IF i > Len(st.imgs) THEN st
    ELSE
      LET ei == st.imgs[i] IN
      IF ~Participates(ei) THEN FixedPass(rid, i + 1, st)
      ELSE
        LET p0 == get_render_priv(rid, st.priv[ei.event])
            s == PrivRect(p0)
            p1 == IF p0.height # ei.height THEN ZeroPriv(p0.render_id) ELSE p0
            p2 == IF \E j \in 1..Len(st.used) : overlap(s, st.used[j])
                  THEN ZeroPriv(p0.render_id) ELSE p1
        IN  IF p0.height > 0
            THEN IF p2.height > 0
                 THEN FixedPass(rid, i + 1,
                        [imgs |-> [st.imgs EXCEPT ![i] = shift_event(FrameHeight, ei, p2.top - ei.top)],
                         priv |-> [st.priv EXCEPT ![ei.event] = p2],
                         used |-> Append(st.used, PrivRect(p2)),
                         by |-> st.by \cup {ei.event}])
                 ELSE FixedPass(rid, i + 1, [st EXCEPT !.priv[ei.event] = p2])
            ELSE FixedPass(rid, i + 1, [st EXCEPT !.priv[ei.event] = p0])

\* second loop of fix_collisions, from index i on: fit the other events into
\* the free space and make them fixed
RECURSIVE FreePass(_, _, _)
FreePass(rid, i, st) ==
    IF i > Len(st.imgs) THEN st
    ELSE
      LET ei == st.imgs[i] IN
      IF ~Participates(ei) THEN FreePass(rid, i + 1, st)
      ELSE
        LET p0 == get_render_priv(rid, st.priv[ei.event]) IN
        IF p0.height = 0
        THEN LET r == fit_rect(EventRect(ei), st.used, ei.shift_direction)
                 ej == IF r.shift # 0 THEN shift_event(FrameHeight, ei, r.shift) ELSE ei
             IN  FreePass(rid, i + 1,
                   [imgs |-> [st.imgs EXCEPT ![i] = ej],
                    priv |-> [st.priv EXCEPT ![ei.event] =
                                [render_id |-> p0.render_id, top |-> ej.top,
                                 height |-> ej.height, left |-> ej.left,
                                 width |-> ej.width]],
                    used |-> r.fixed,
                    by |-> st.by \cup {ei.event}])
        ELSE FreePass(rid, i + 1, [st EXCEPT !.priv[ei.event] = p0])

\* fix_collisions(render_priv, imgs, cnt)
fix_collisions(rid, imgs, priv) ==
    LET st1 == FixedPass(rid, 1, [imgs |-> imgs, priv |-> priv, used |-> <<>>, by |-> {}])
        st2 == [st1 EXCEPT !.used = SortY0(st1.used)]
    IN  FreePass(rid, 1, st2)

-----------------------------------------------------------------------------
(* SpecCollide: one layer group rendered frame after frame *)

\* what a frame can hand to fix_collisions for event e: its box, and one
\* image that covers the rows of the box
InputBox(e, d, t, h, l, w, dir) ==
    [event |-> e, detect_collisions |-> d, top |-> t, height |-> h,
     left |-> l, width |-> w, shift_direction |-> dir,
     imgs |-> <<Image(w, h, 1, 0, 0, l, t)>>]

\* (detect_collisions, top, height, left, width, shift_direction); the
\* direction of a box that takes no part is never read and is left at 1
InputParams ==
    { q \in BOOLEAN \X (0..MaxTop) \X (0..MaxHeight) \X (0..MaxLeft)
                \X (1..MaxWidth) \X {1, -1} :
        (~q[1] \/ q[3] = 0) => q[6] = 1 }

\* the EventImages array of a frame: the events of the group in read order
InputGroups ==
    { [e \in Events |-> InputBox(e, q[e][1], q[e][2], q[e][3], q[e][4], q[e][5], q[e][6])] :
        q \in [Events -> InputParams] }

CollideIdle ==
    /\ render_id = 0
    /\ event_priv = [e \in Events |-> NoPriv]
    /\ eimgs_in = <<>>
    /\ eimgs = <<>>
    /\ used = <<>>
    /\ used_by = {}
    /\ priv_in = event_priv
    /\ fc_pc = "idle"

CollideInit == CollideIdle

\* a frame: the group's events are rendered to some boxes and fix_collisions
\* runs on them
FixCollisions ==
    /\ fc_pc = "idle"
    /\ \E g \in InputGroups :
        LET st == fix_collisions(render_id, g, event_priv)
        IN  /\ eimgs_in' = g
            /\ priv_in' = event_priv
            /\ eimgs' = st.imgs
            /\ event_priv' = st.priv
            /\ used' = st.used
            /\ used_by' = st.by
    /\ fc_pc' = "fixed"
    /\ UNCHANGED render_id

\* the frame is over: the EventImages array and used[] are dead, the records
\* of the events stay
EndFrame ==
    /\ fc_pc = "fixed"
    /\ eimgs_in' = <<>>
    /\ eimgs' = <<>>
    /\ used' = <<>>
    /\ used_by' = {}
    /\ priv_in' = event_priv
    /\ fc_pc' = "idle"
    /\ UNCHANGED <<render_id, event_priv>>

\* the renderer is reconfigured between two frames: render_id changes
Reconfigure ==
    /\ fc_pc = "idle"
    /\ render_id < MaxRenderId
    /\ render_id' = render_id + 1
    /\ UNCHANGED <<event_priv, eimgs_in, eimgs, used, used_by, priv_in, fc_pc>>

-----------------------------------------------------------------------------
(* ass_start_frame, ass_render_event, ass_render_frame *)

\* ass_start_frame with a test that rejects a frame with any zero dimension
StartFrameAccepts_AnyZero(st, tr) ==
    /\ ~(st.frame_width = 0 \/ st.frame_height = 0)
    /\ st.fontselect
    /\ st.same_library
    /\ Len(tr) # 0

\* ass_start_frame's tests: false when the frame is rejected
StartFrameAccepts(st, tr) ==
    /\ ~(st.frame_width = 0 /\ st.frame_height = 0)
    /\ st.fontselect
    /\ st.same_library
    /\ Len(tr) # 0

\* a variant that counts the end of the interval in
IsActive_EndInclusive(ev, now) == ev.Start <= now /\ now <= ev.Start + ev.Duration

\* the test of ass_render_frame's loop: the event is shown at time now
IsActive(ev, now) == ev.Start <= now /\ now < ev.Start + ev.Duration

\* the indices of the events the loop calls ass_render_event on, from index
\* i on, in track order
RECURSIVE ActiveFrom(_, _, _)
ActiveFrom(tr, now, i) ==
    IF i > Len(tr) THEN <<>>
    ELSE IF IsActive(tr[i], now) THEN <<i>> \o ActiveFrom(tr, now, i + 1)
    ELSE ActiveFrom(tr, now, i + 1)

SeqRange(s) == { s[k] : k \in 1..Len(s) }

\* ass_render_event's return value: false for a style index outside the
\* track's styles, a NULL text, a text that fails to parse, a text without
\* glyphs, or a text that fails to shape.  parses and shapes say whether
\* parse_events and ass_shaper_shape succeed on this call.
ass_render_event(ev, parses, shapes) ==
    IF ev.Style >= NStyles THEN FALSE
    ELSE IF ev.Text = "NULL" THEN FALSE
    ELSE IF ~parses THEN FALSE
    ELSE IF ev.Text = "comment" THEN FALSE
    ELSE IF ~shapes THEN FALSE
    ELSE TRUE

\* what ass_render_event stores through its event_images parameter: nothing,
\* the slot is as it was
RenderEventSlot(slot, e) == slot

\* the events of a call sequence on which ass_render_event gets as far as
\* calling parse_events, resp. ass_shaper_shape
Parsed(tr, calls) ==
    { e \in SeqRange(calls) : tr[e].Style < NStyles /\ tr[e].Text # "NULL" }

Shaped(tr, calls, bad_parse) ==
    { e \in Parsed(tr, calls) \ bad_parse : tr[e].Text # "comment" }

\* the events of a call sequence for which ass_render_event returns true
RECURSIVE RenderedOf(_, _, _, _)
RenderedOf(tr, calls, bad_parse, bad_shape) ==
    IF calls = <<>> THEN <<>>
    ELSE LET e == Head(calls)
             rest == RenderedOf(tr, Tail(calls), bad_parse, bad_shape)
         IN  IF ass_render_event(tr[e], e \notin bad_parse, e \notin bad_shape)
             THEN <<e>> \o rest ELSE rest

\* cmp_event_layer on two slots: by Layer, then ReadOrder, of the event the
\* slot points to
SlotBefore(tr, a, b) ==
    \/ tr[a.event].Layer < tr[b.event].Layer
    \/ /\ tr[a.event].Layer = tr[b.event].Layer
       /\ tr[a.event].ReadOrder < tr[b.event].ReadOrder

\* qsort(priv->eimg, cnt, sizeof(EventImages), cmp_event_layer), as an
\* insertion sort
RECURSIVE InsertSlot(_, _, _)
InsertSlot(tr, s, sorted) ==
    IF sorted = <<>> THEN <<s>>
    ELSE IF SlotBefore(tr, s, Head(sorted)) THEN <<s>> \o sorted
    ELSE <<Head(sorted)>> \o InsertSlot(tr, s, Tail(sorted))

RECURSIVE SortSlots(_, _)
SortSlots(tr, slots) ==
    IF slots = <<>> THEN <<>>
    ELSE InsertSlot(tr, slots[Len(slots)], SortSlots(tr, SubSeq(slots, 1, Len(slots) - 1)))

\* the loop that calls fix_collisions for each run of slots with one Layer:
\* the run starts at index last, i is the loop index.  st = [imgs, priv]
RECURSIVE FixGroups(_, _, _, _, _)
FixGroups(rid, tr, last, i, st) ==
    LET cnt == Len(st.imgs)
        run(a, b) ==
            LET r == fix_collisions(rid, SubSeq(st.imgs, a, b), st.priv)
            IN  [imgs |-> SubSeq(st.imgs, 1, a - 1) \o r.imgs \o SubSeq(st.imgs, b + 1, cnt),
                 priv |-> r.priv]
    IN  IF cnt = 0 THEN st
        ELSE IF i > cnt THEN run(last, cnt)
        ELSE IF tr[st.imgs[last].event].Layer # tr[st.imgs[i].event].Layer
             THEN FixGroups(rid, tr, i, i + 1, run(last, i - 1))
             ELSE FixGroups(rid, tr, last, i + 1, st)

\* the loop that links the image lists of the slots into one list
RECURSIVE ConcatImages(_)
ConcatImages(slots) ==
    IF slots = <<>> THEN <<>>
    ELSE Head(slots).imgs \o ConcatImages(Tail(slots))

-----------------------------------------------------------------------------
(* SpecFrame: a renderer and a track, frame after frame *)

TrackEvent(i, start, dur, layer, style, text) ==
    [ReadOrder |-> i, Start |-> start, Duration |-> dur, Layer |-> layer,
     Style |-> style, Text |-> text]

\* the contents of an event: a text with glyphs, a text of override blocks
\* only, no text, or a style index the track does not have
EventContents ==
    { <<0, "text">>, <<0, "comment">>, <<0, "NULL">>, <<NStyles, "text">> }

Tracks ==
    UNION { { [i \in 1..n |-> TrackEvent(i, q[i][1], q[i][2], q[i][3], q[i][4][1], q[i][4][2])] :
                q \in [1..n -> (0..MaxStart) \X (0..MaxDuration) \X (0..MaxLayer)
                                 \X EventContents] } :
            n \in 0..NEvents }

\* a renderer that is set up, and the ways ass_start_frame can find it or
\* the track wanting
SettingsOk ==
    [frame_width |-> 1, frame_height |-> 1, fontselect |-> TRUE, same_library |-> TRUE]

Settings ==
    { SettingsOk,
      [SettingsOk EXCEPT !.frame_width = 0],
      [SettingsOk EXCEPT !.frame_height = 0],
      [SettingsOk EXCEPT !.frame_width = 0, !.frame_height = 0],
      [SettingsOk EXCEPT !.fontselect = FALSE],
      [SettingsOk EXCEPT !.same_library = FALSE] }

\* what the memory realloc returns for the slots can hold: a pointer to some
\* event of the track, either flag value, a box, and an image list
SlotGarbage(tr) ==
    { [event |-> e, detect_collisions |-> d, top |-> 0, height |-> 1,
       left |-> 0, width |-> 1, shift_direction |-> 1,
       imgs |-> <<Image(1, 1, 1, 0, 0, 0, 0)>>] :
      e \in 1..Len(tr), d \in BOOLEAN }

FrameIdle ==
    /\ settings = SettingsOk
    /\ track = <<>>
    /\ eimg = <<>>
    /\ eimg_size = 0
    /\ images_root = <<>>
    /\ prev_images_root = <<>>
    /\ fr_now = 0
    /\ fr_attempted = <<>>
    /\ fr_rendered = <<>>
    /\ fr_slot_event = <<>>
    /\ fr_change = -1
    /\ fr_ret = <<>>
    /\ fr_pc = "idle"
    /\ fr_count = 0

\* after ass_renderer_init (eimg and the image roots are zero-filled), with
\* some settings and some track loaded
FrameInit ==
    /\ settings \in Settings
    /\ track \in Tracks
    /\ eimg = <<>>
    /\ eimg_size = 0
    /\ images_root = <<>>
    /\ prev_images_root = <<>>
    /\ fr_now = 0
    /\ fr_attempted = <<>>
    /\ fr_rendered = <<>>
    /\ fr_slot_event = <<>>
    /\ fr_change = -1
    /\ fr_ret = <<>>
    /\ fr_pc = "idle"
    /\ fr_count = 0

\* ass_render_frame on a frame ass_start_frame rejects
RenderFrameRejected ==
    /\ fr_pc = "idle"
    /\ fr_count < MaxFrames
    /\ fr_count' = fr_count + 1
    /\ ~StartFrameAccepts(settings, track)
    /\ \E now \in 0..MaxNow, want_change \in BOOLEAN :
        /\ fr_now' = now
        /\ fr_change' = IF want_change THEN 2 ELSE -1
    /\ fr_attempted' = <<>>
    /\ fr_rendered' = <<>>
    /\ fr_slot_event' = <<>>
    /\ fr_ret' = <<>>
    /\ fr_pc' = "done"
    /\ UNCHANGED <<settings, track, eimg, eimg_size, images_root, prev_images_root,
                   render_id, event_priv>>

\* ass_render_frame on a frame ass_start_frame accepts
RenderFrame ==
    /\ fr_pc = "idle"
    /\ fr_count < MaxFrames
    /\ fr_count' = fr_count + 1
    /\ StartFrameAccepts(settings, track)
    /\ \E now \in 0..MaxNow, want_change \in BOOLEAN :
       \E bad_parse \in SUBSET Parsed(track, ActiveFrom(track, now, 1)) :
       \E bad_shape \in SUBSET Shaped(track, ActiveFrom(track, now, 1), bad_parse) :
       \E fresh \in IF ActiveFrom(track, now, 1) # <<>> /\ eimg_size = 0
                    THEN [1..Len(track) -> SlotGarbage(track)] ELSE {eimg} :
        LET prev == images_root
            calls == ActiveFrom(track, now, 1)
            done == RenderedOf(track, calls, bad_parse, bad_shape)
            cnt == Len(done)
            \* the first call finds cnt >= eimg_size and reallocs
            grown == calls # <<>> /\ eimg_size = 0
            slots0 == IF grown THEN fresh ELSE eimg
            slots1 == [k \in 1..Len(slots0) |->
                         IF k <= cnt THEN RenderEventSlot(slots0[k], done[k]) ELSE slots0[k]]
            sorted == SortSlots(track, SubSeq(slots1, 1, cnt))
            fixed == FixGroups(render_id, track, 1, 2, [imgs |-> sorted, priv |-> event_priv])
            root == ConcatImages(fixed.imgs)
        IN  /\ fr_now' = now
            /\ fr_attempted' = calls
            /\ fr_rendered' = done
            /\ fr_slot_event' = [k \in 1..cnt |-> slots1[k].event]
            /\ eimg_size' = IF grown THEN eimg_size + EimgGrow ELSE eimg_size
            /\ eimg' = fixed.imgs \o SubSeq(slots1, cnt + 1, Len(slots1))
            /\ event_priv' = fixed.priv
            /\ images_root' = root
            /\ prev_images_root' = <<>>
            /\ fr_change' = IF want_change THEN ass_detect_change(prev, root) ELSE -1
            /\ fr_ret' = root
    /\ fr_pc' = "done"
    /\ UNCHANGED <<settings, track, render_id>>

\* the caller has the result; the renderer waits for the next frame
FrameReturn ==
    /\ fr_pc = "done"
    /\ fr_now' = 0
    /\ fr_attempted' = <<>>
    /\ fr_rendered' = <<>>
    /\ fr_slot_event' = <<>>
    /\ fr_change' = -1
    /\ fr_ret' = <<>>
    /\ fr_pc' = "idle"
    /\ UNCHANGED <<settings, track, eimg, eimg_size, images_root, prev_images_root,
                   render_id, event_priv, fr_count>>

-----------------------------------------------------------------------------
(* wrap_lines_smart, trim_whitespace, measure_text *)

\* Glyphs are numbered from 1 here: glyph k is text_info->glyphs[k - 1], a
\* pointer that is NULL is 0, and the pointer one past the last glyph is
\* Len(g) + 1.  Horizontal positions and glyph metrics are in 1/64 pixel,
\* line metrics, text height and line_spacing in 1/128 pixel.

Glyph(symbol, x_min, x_max, adv, asc, desc) ==
    [symbol |-> symbol, x_min |-> x_min, x_max |-> x_max, adv |-> adv,
     asc |-> asc, desc |-> desc, pos_x |-> 0, pos_y |-> 0, linebreak |-> 0,
     skip |-> FALSE, is_trimmed_whitespace |-> FALSE, starts_new_run |-> FALSE]

\* preliminary_layout: each glyph stands at the sum of the advances before it
RECURSIVE preliminary_layout(_, _, _)
preliminary_layout(g, i, pen) ==
    IF i > Len(g) THEN g
    ELSE preliminary_layout([g EXCEPT ![i].pos_x = pen], i + 1, pen + g[i].adv)

\* bbox.x_min + pos.x and bbox.x_max + pos.x of glyph k
GlyphStart(g, k) == g[k].x_min + g[k].pos_x
GlyphEnd(g, k) == g[k].x_max + g[k].pos_x

\* step 1 of wrap_lines_smart from glyph i on.
\* st = [g, last_space, break_type, s1, n_lines]
RECURSIVE WrapScan(_, _, _, _)
WrapScan(i, st, max_text_width, wrap_style) ==
    IF i > Len(st.g) THEN st
    ELSE
      LET g == st.g
          cur == g[i]
          len == GlyphEnd(g, i) - GlyphStart(g, st.s1)
          forced == cur.symbol = "\n"
          space == ~forced /\ cur.symbol = " "
          full == ~forced /\ ~space /\ len >= max_text_width /\ wrap_style # 2
          break_type == IF forced THEN 2 ELSE IF full THEN 1 ELSE st.break_type
          last_space == IF space THEN i ELSE st.last_space
          break_at == IF forced THEN i ELSE IF full THEN st.last_space ELSE 0
          lead == break_at + 1
          st1 == [st EXCEPT !.break_type = break_type, !.last_space = last_space]
      IN  IF break_at # 0 /\ lead <= Len(g)
          THEN WrapScan(i + 1,
                        [st1 EXCEPT !.g = [g EXCEPT ![lead].linebreak = break_type],
                                    !.last_space = 0,
                                    !.s1 = lead,
                                    !.n_lines = st.n_lines + 1],
                        max_text_width, wrap_style)
          ELSE WrapScan(i + 1, st1, max_text_width, wrap_style)

\* do { --w; } while ((w > s1) && (w->symbol == ' ')), after the first --w
RECURSIVE BackOverSpaces(_, _, _)
BackOverSpaces(g, w, s1) ==
    IF w > s1 /\ g[w].symbol = " " THEN BackOverSpaces(g, w - 1, s1) ELSE w

\* while ((w > s1) && (w->symbol != ' ')) --w
RECURSIVE BackOverWord(_, _, _)
BackOverWord(g, w, s1) ==
    IF w > s1 /\ g[w].symbol # " " THEN BackOverWord(g, w - 1, s1) ELSE w

DIFF(x, y) == IF x < y THEN y - x ELSE x - y

\* a variant that moves the word whatever the widths
Improves_Always(l1_new, l2_new, l1, l2) == TRUE

\* a variant that also moves the word when the difference stays the same
Improves_OrEqual(l1_new, l2_new, l1, l2) == DIFF(l1_new, l2_new) <= DIFF(l1, l2)

\* the test that decides whether the last word of a line moves down
Improves(l1_new, l2_new, l1, l2) == DIFF(l1_new, l2_new) < DIFF(l1, l2)

\* a variant that asks for another scan every time
ExitAfter_Never(exit, moved) == 0

\* exit after a line pair was looked at: a move clears it
ExitAfter(exit, moved) == IF moved THEN 0 ELSE exit

\* a variant that forgets the line lost when the word goes to the text start
LinesAfterMove_NoStart(g, w, n_lines) ==
    IF g[w].linebreak # 0 THEN n_lines - 1 ELSE n_lines

\* if (w->linebreak || w == text_info->glyphs) text_info->n_lines--
LinesAfterMove(g, w, n_lines) ==
    IF g[w].linebreak # 0 \/ w = 1 THEN n_lines - 1 ELSE n_lines

\* the number of glyphs that carry a linebreak marker
MarkedGlyphs(g) == Cardinality({ k \in 1..Len(g) : g[k].linebreak # 0 })

\* what the scan does with the line pair [s1, s2), [s2, s3)
BalancePair(st) ==
    LET g == st.g
        s1 == st.s1
        s2 == st.s2
        s3 == st.s3
        w1 == BackOverWord(g, BackOverSpaces(g, s2 - 1, s1), s1)
        e1 == BackOverSpaces(g, w1, s1)
        w == IF g[w1].symbol = " " THEN w1 + 1 ELSE w1
        l1 == GlyphEnd(g, s2 - 1) - GlyphStart(g, s1)
        l2 == GlyphEnd(g, s3 - 1) - GlyphStart(g, s2)
        l1_new == GlyphEnd(g, e1) - GlyphStart(g, s1)
        l2_new == GlyphEnd(g, s3 - 1) - GlyphStart(g, w)
        moved == Improves(l1_new, l2_new, l1, l2)
        n_lines == LinesAfterMove(g, w, st.n_lines)
        gw == IF w # 1 THEN [g EXCEPT ![w].linebreak = 1] ELSE g
        g2 == [gw EXCEPT ![s2].linebreak = 0]
    IN  IF moved
        THEN [st EXCEPT !.g = g2,
                        !.n_lines = n_lines,
                        !.counted = st.counted /\ n_lines = 1 + MarkedGlyphs(g2)
                                               /\ n_lines >= 1 /\ g2[1].linebreak = 0,
                        !.exit = ExitAfter(st.exit, TRUE),
                        !.moves = st.moves + 1,
                        !.emptied = st.emptied \/ w = s1]
        ELSE [st EXCEPT !.exit = ExitAfter(st.exit, FALSE)]

\* one scan of step 2 of wrap_lines_smart, from index i on.
\* st = [g, n_lines, exit, s1, s2, s3, moves, emptied, counted]; moves counts
\* the words moved, emptied says whether a move took the only word of a line,
\* and counted whether after every move n_lines was at least 1 and one more
\* than the number of marked glyphs, with no marker on the first glyph.
RECURSIVE BalanceScan(_, _)
BalanceScan(i, st) ==
    LET L == Len(st.g)
        at_break == i = L + 1 \/ st.g[i].linebreak # 0
        st1 == [st EXCEPT !.s1 = st.s2, !.s2 = st.s3, !.s3 = i]
        st2 == IF ~at_break THEN st
               ELSE IF st1.s1 # 0 /\ st1.g[st1.s2].linebreak = 1 THEN BalancePair(st1)
               ELSE st1
    IN  IF i = L + 1 THEN st2 ELSE BalanceScan(i + 1, st2)

IS_WHITESPACE_SpaceOnly(x) == x.symbol = " " /\ x.linebreak = 0

IS_WHITESPACE(x) == (x.symbol = " " \/ x.symbol = "\n") /\ x.linebreak = 0

MarkTrimmed(g, k) ==
    [g EXCEPT ![k].skip = TRUE, ![k].is_trimmed_whitespace = TRUE]

StartsNewRun(g, k) ==
    IF k <= Len(g) THEN [g EXCEPT ![k].starts_new_run = TRUE] ELSE g

\* trim_whitespace, "Mark trailing spaces"
RECURSIVE TrimTrailing(_, _)
TrimTrailing(g, i) ==
    IF i > 1 /\ IS_WHITESPACE(g[i]) THEN TrimTrailing(MarkTrimmed(g, i), i - 1) ELSE g

\* trim_whitespace, "Mark leading whitespace"
RECURSIVE TrimLeading(_, _)
TrimLeading(g, i) ==
    IF i <= Len(g) /\ IS_WHITESPACE(g[i]) THEN TrimLeading(MarkTrimmed(g, i), i + 1)
    ELSE StartsNewRun(g, i)

\* trim_whitespace, "Mark whitespace before" a break
RECURSIVE TrimBefore(_, _)
TrimBefore(g, j) ==
    IF j > 1 /\ IS_WHITESPACE(g[j]) THEN TrimBefore(MarkTrimmed(g, j), j - 1) ELSE g

\* trim_whitespace, "Mark whitespace after" a break; gives the glyphs and
\* the index the loop stopped at
RECURSIVE TrimAfter(_, _)
TrimAfter(g, j) ==
    IF j <= Len(g) /\ IS_WHITESPACE(g[j]) THEN TrimAfter(MarkTrimmed(g, j), j + 1)
    ELSE [g |-> g, j |-> j]

\* trim_whitespace, "Mark all extraneous whitespace inbetween"
RECURSIVE TrimBreaks(_, _)
TrimBreaks(g, i) ==
    IF i > Len(g) THEN g
    ELSE IF g[i].linebreak = 0 THEN TrimBreaks(g, i + 1)
    ELSE LET g1 == TrimBefore(g, i - 1)
         IN  IF g1[i].symbol = " " \/ g1[i].symbol = "\n"
             THEN LET r == TrimAfter(MarkTrimmed(g1, i), i + 1)
                  IN  TrimBreaks(StartsNewRun(r.g, r.j), r.j)
             ELSE TrimBreaks(StartsNewRun(g1, i), i + 1)

trim_whitespace(g) == TrimBreaks(TrimLeading(TrimTrailing(g, Len(g)), 1), 1)

Max2i(a, b) == IF a > b THEN a ELSE b

\* a variant that leaves the line spacing out of the height
SpacingTotal_None(cur_line, line_spacing) == 0

\* text_info->height += cur_line * line_spacing
SpacingTotal(cur_line, line_spacing) == cur_line * line_spacing

\* measure_text_on_eol: st = [lines, height, cur_line, scale, max_asc,
\* max_desc, empty_trimmed_line]; scale is 2 for 1.0 / 64 and 1 for 0.5 / 64
measure_text_on_eol(st) ==
    [st EXCEPT !.lines[st.cur_line + 1].asc = st.scale * st.max_asc,
               !.lines[st.cur_line + 1].desc = st.scale * st.max_desc,
               !.height = st.height + st.scale * st.max_asc + st.scale * st.max_desc]

\* the loop of measure_text from glyph i on
RECURSIVE MeasureScan(_, _, _)
MeasureScan(g, i, st) ==
    IF i > Len(g) THEN st
    ELSE
      LET cur == g[i]
          st1 == IF cur.linebreak # 0
                 THEN [measure_text_on_eol(st) EXCEPT
                         !.empty_trimmed_line = TRUE, !.max_asc = 0, !.max_desc = 0,
                         !.scale = 1, !.cur_line = st.cur_line + 1]
                 ELSE st
          first == st1.empty_trimmed_line /\ ~cur.is_trimmed_whitespace
          trailing == ~st1.empty_trimmed_line /\ cur.is_trimmed_whitespace
          st2 == IF first
                 THEN [st1 EXCEPT !.empty_trimmed_line = FALSE, !.max_asc = 0, !.max_desc = 0]
                 ELSE st1
          st3 == [st2 EXCEPT !.max_asc = Max2i(st2.max_asc, cur.asc),
                             !.max_desc = Max2i(st2.max_desc, cur.desc),
                             !.scale = IF cur.symbol # "\n" THEN 2 ELSE st2.scale]
      IN  IF trailing THEN MeasureScan(g, i + 1, st1) ELSE MeasureScan(g, i + 1, st3)

\* measure_text: the lines, the height, and whether the assertion
\* cur_line == n_lines - 1 holds
measure_text(g, lines, n_lines, line_spacing) ==
    LET st == MeasureScan(g, 1, [lines |-> lines, height |-> 0, cur_line |-> 0,
                                 scale |-> 1, max_asc |-> 0, max_desc |-> 0,
                                 empty_trimmed_line |-> TRUE])
        fin == measure_text_on_eol(st)
    IN  [lines |-> fin.lines,
         height |-> fin.height + SpacingTotal(fin.cur_line, line_spacing),
         assert_ok |-> fin.cur_line = n_lines - 1]

\* double_to_d6 of a length given in 1/128 pixel: lrint rounds to even
double_to_d6(u) ==
    IF u % 2 = 0 THEN u \div 2
    ELSE IF ((u - 1) \div 2) % 2 = 0 THEN (u - 1) \div 2 ELSE (u + 1) \div 2

\* while (i < text_info->length && cur->skip) cur = text_info->glyphs + ++i
RECURSIVE FirstShown(_, _)
FirstShown(g, i) ==
    IF i <= Len(g) /\ g[i].skip THEN FirstShown(g, i + 1) ELSE i

\* while (i < length && cur->skip && cur->symbol != '\n') cur = glyphs + ++i
RECURSIVE LineShown(_, _)
LineShown(g, i) ==
    IF i <= Len(g) /\ g[i].skip /\ g[i].symbol # "\n" THEN LineShown(g, i + 1) ELSE i

\* pos.x of glyph i; stale is what the array holds behind the text
PosX(g, i, stale) == IF i <= Len(g) THEN g[i].pos_x ELSE stale

ShiftPos(g, i, dx, dy) ==
    IF i <= Len(g)
    THEN [g EXCEPT ![i].pos_x = g[i].pos_x + dx, ![i].pos_y = g[i].pos_y + dy]
    ELSE g

\* the last loop of wrap_lines_smart from glyph i on.
\* st = [g, lines, cur_line, pen_shift_x, pen_shift_y, beyond]; beyond says
\* whether the glyph behind the text was read or written
RECURSIVE PenScan(_, _, _, _)
PenScan(i, st, line_spacing, stale) ==
    IF i > Len(st.g) THEN st
    ELSE IF st.g[i].linebreak # 0
    THEN LET j == LineShown(st.g, i)
             c == st.cur_line
             height == st.lines[c].desc + st.lines[c + 1].asc
             pen_x == -PosX(st.g, j, stale)
             pen_y == st.pen_shift_y + height + line_spacing
             lines == [st.lines EXCEPT ![c].len = (j - 1) - st.lines[c].offset,
                                       ![c + 1].offset = j - 1]
         IN  PenScan(j + 1,
                     [g |-> ShiftPos(st.g, j, pen_x, double_to_d6(pen_y)),
                      lines |-> lines, cur_line |-> c + 1,
                      pen_shift_x |-> pen_x, pen_shift_y |-> pen_y,
                      beyond |-> st.beyond \/ j > Len(st.g)],
                     line_spacing, stale)
    ELSE PenScan(i + 1,
                 [st EXCEPT !.g = ShiftPos(st.g, i, st.pen_shift_x,
                                           double_to_d6(st.pen_shift_y))],
                 line_spacing, stale)

\* wrap_lines_smart from "cur_line = 1" to its end
PenShift(g, lines, line_spacing, stale) ==
    LET i0 == FirstShown(g, 1)
        st == PenScan(1, [g |-> g, lines |-> lines, cur_line |-> 1,
                          pen_shift_x |-> -PosX(g, i0, stale), pen_shift_y |-> 0,
                          beyond |-> i0 > Len(g)],
                      line_spacing, stale)
    IN  [g |-> st.g,
         lines |-> [st.lines EXCEPT ![st.cur_line].len = Len(g) - st.lines[st.cur_line].offset],
         beyond |-> st.beyond]

-----------------------------------------------------------------------------
(* SpecWrap: wrap_lines_smart applied to bounded texts *)

\* the glyphs a text is made of: a narrow and a wide letter, a space and a
\* newline code
GlyphKinds ==
    { Glyph("a", 0, NarrowAdv, NarrowAdv, 1, 1),
      Glyph("W", 0, WideAdv, WideAdv, MaxAsc - 1, 2),
      Glyph(" ", 0, 0, NarrowAdv, MaxAsc, 1),
      Glyph("\n", 0, 0, 0, MaxAsc, 1) }

\* a row of one-letter words, "a a a ... a"
WordRow(n) ==
    [k \in 1..n |-> IF k % 2 = 1 THEN Glyph("a", 0, NarrowAdv, NarrowAdv, 1, 1)
                    ELSE Glyph(" ", 0, 0, NarrowAdv, MaxAsc, 1)]

\* two paragraphs, "WW a" and "W a", with a newline code between them
TwoParagraphs ==
    LET a == Glyph("a", 0, NarrowAdv, NarrowAdv, 1, 1)
        W == Glyph("W", 0, WideAdv, WideAdv, MaxAsc - 1, 2)
        sp == Glyph(" ", 0, 0, NarrowAdv, MaxAsc, 1)
        nl == Glyph("\n", 0, 0, 0, MaxAsc, 1)
    IN  <<W, W, sp, a, nl, W, sp, a>>

\* every text of up to MaxTextLen glyphs, the rows of up to WordRowLen, and
\* the two paragraphs
Texts ==
    UNION { { preliminary_layout(t, 1, 0) : t \in [1..n -> GlyphKinds] } :
            n \in 1..MaxTextLen }
    \cup { preliminary_layout(WordRow(n), 1, 0) : n \in (MaxTextLen + 1)..WordRowLen }
    \cup { preliminary_layout(TwoParagraphs, 1, 0) }

TextWidths == (MinTextWidth..MaxTextWidth) \cup ((WordRowLen - 2)..WordRowLen)

\* wrap styles 0 and 3 take the same branches
WrapStyles == {0, 1, 2}

\* whether the glyph slot behind the text holds a position other than 0
StalePosX == BOOLEAN

\* text_info->lines as calloc left it
NoLines(n) == [k \in 1..n |-> [asc |-> 0, desc |-> 0, offset |-> 0, len |-> 0]]

WrapIdle ==
    /\ w_glyphs = <<>>
    /\ w_max_text_width = 0
    /\ w_wrap_style = 0
    /\ w_line_spacing = 0
    /\ w_n_lines = 0
    /\ w_lines = <<>>
    /\ w_height = 0
    /\ w_exit = 0
    /\ w_after_wrap = <<>>
    /\ w_passes = 0
    /\ w_moves = 0
    /\ w_emptied = FALSE
    /\ w_counted = TRUE
    /\ w_assert_ok = TRUE
    /\ w_beyond = FALSE
    /\ w_pc = "idle"

\* a renderer that has not laid out a text yet
WrapInit == WrapIdle

\* ass_render_event up to its call of wrap_lines_smart: the text is parsed,
\* shaped and laid out on one line
LayoutText ==
    /\ w_pc = "idle"
    /\ w_glyphs' \in Texts
    /\ w_max_text_width' \in TextWidths
    /\ w_wrap_style' \in WrapStyles
    /\ w_line_spacing' \in {0, LineSpacing}
    /\ w_lines' = NoLines(Len(w_glyphs') + 1)
    /\ w_pc' = "wrap"
    /\ UNCHANGED <<w_n_lines, w_height, w_exit, w_after_wrap, w_passes, w_moves,
                   w_emptied, w_counted, w_assert_ok, w_beyond>>

\* step 1: place text, wrapping it when the current line is full
InitialWrap ==
    /\ w_pc = "wrap"
    /\ LET st == WrapScan(1, [g |-> w_glyphs, last_space |-> 0, break_type |-> 0,
                              s1 |-> 1, n_lines |-> 1],
                          w_max_text_width, w_wrap_style)
       IN  /\ w_glyphs' = st.g
           /\ w_after_wrap' = st.g
           /\ w_n_lines' = st.n_lines
    /\ w_exit' = 0
    /\ w_pc' = "balance"
    /\ UNCHANGED <<w_max_text_width, w_wrap_style, w_line_spacing, w_lines, w_height,
                   w_passes, w_moves, w_emptied, w_counted, w_assert_ok, w_beyond>>

\* step 2: one pass of while (!exit && wrap_style != 1)
BalancePass ==
    /\ w_pc = "balance"
    /\ w_exit = 0 /\ w_wrap_style # 1
    /\ w_passes < MaxPasses
    /\ LET st == BalanceScan(1, [g |-> w_glyphs, n_lines |-> w_n_lines, exit |-> 1,
                                 s1 |-> 0, s2 |-> 0, s3 |-> 1,
                                 moves |-> w_moves, emptied |-> w_emptied,
                                 counted |-> w_counted])
       IN  /\ w_glyphs' = st.g
           /\ w_n_lines' = st.n_lines
           /\ w_exit' = st.exit
           /\ w_moves' = st.moves
           /\ w_emptied' = st.emptied
           /\ w_counted' = st.counted
    /\ w_passes' = w_passes + 1
    /\ UNCHANGED <<w_max_text_width, w_wrap_style, w_line_spacing, w_lines, w_height,
                   w_after_wrap, w_assert_ok, w_beyond, w_pc>>

\* the rest of wrap_lines_smart: trim_whitespace, measure_text and the pen
\* shift of every line
WrapFinish ==
    /\ w_pc = "balance"
    /\ ~(w_exit = 0 /\ w_wrap_style # 1)
    /\ \E stale \in StalePosX :
        LET g == trim_whitespace(w_glyphs)
            m == measure_text(g, w_lines, w_n_lines, w_line_spacing)
            p == PenShift(g, m.lines, w_line_spacing, IF stale THEN NarrowAdv ELSE 0)
        IN  /\ (stale => p.beyond)
            /\ w_glyphs' = p.g
            /\ w_lines' = p.lines
            /\ w_height' = m.height
            /\ w_assert_ok' = m.assert_ok
            /\ w_beyond' = p.beyond
    /\ w_pc' = "done"
    /\ UNCHANGED <<w_max_text_width, w_wrap_style, w_line_spacing, w_n_lines, w_exit,
                   w_after_wrap, w_passes, w_moves, w_emptied, w_counted>>

-----------------------------------------------------------------------------
(* Arithmetic on doubles *)

\* The values of type double that the quantizers compute with are modelled
\* as exact fractions <<numerator, denominator>> in lowest terms with a
\* positive denominator: the rounding of the floating-point operations is
\* left out.

RECURSIVE GCD(_, _)
GCD(a, b) == IF b = 0 THEN a ELSE GCD(b, a % b)

IAbs(a) == IF a < 0 THEN -a ELSE a

Rat(n, d) ==
    LET s == IF d < 0 THEN -1 ELSE 1
        g == GCD(IAbs(n), IAbs(d))
    IN  <<(s * n) \div g, (s * d) \div g>>

RInt(a) == <<a, 1>>
RAdd(p, q) ==
    LET g == GCD(p[2], q[2])
    IN  Rat(p[1] * (q[2] \div g) + q[1] * (p[2] \div g), (p[2] \div g) * q[2])
RNeg(p) == <<-p[1], p[2]>>
RSub(p, q) == RAdd(p, RNeg(q))
RMul(p, q) ==
    LET a == Rat(p[1], q[2])
        b == Rat(q[1], p[2])
    IN  <<a[1] * b[1], a[2] * b[2]>>
RDiv(p, q) == RMul(p, Rat(q[2], q[1]))
RLt(p, q) == p[1] * q[2] < q[1] * p[2]
RLe(p, q) == p[1] * q[2] <= q[1] * p[2]
fabs(p) == <<IAbs(p[1]), p[2]>>
FFMAX(p, q) == IF RLt(q, p) THEN p ELSE q
FFMIN(p, q) == IF RLt(p, q) THEN p ELSE q

\* lrint in the default rounding mode: to the nearest integer, a tie to the
\* even one
lrint(p) ==
    LET fl == p[1] \div p[2]
        r2 == 2 * (p[1] - fl * p[2])
    IN  IF r2 < p[2] THEN fl
        ELSE IF r2 > p[2] THEN fl + 1
        ELSE IF fl % 2 = 0 THEN fl ELSE fl + 1

RECURSIVE Pow2(_)
Pow2(n) == IF n = 0 THEN 1 ELSE 2 * Pow2(n - 1)

\* the exponent frexp stores for x > 0: the e with 2^(e-1) <= x < 2^e
RECURSIVE FrexpFrom(_, _)
FrexpFrom(x, e) ==
    IF RLt(x, RInt(Pow2(e))) THEN e ELSE FrexpFrom(x, e + 1)

frexp_exp(x) == IF x[1] = 0 THEN 0 ELSE FrexpFrom(x, 0)


-----------------------------------------------------------------------------
(* quantize_blur and the shadow offset of a run *)

POSITION_PRECISION == 8
BLUR_PRECISION == <<1, 256>>

\* log(2) lies between these two fractions
Ln2Lo == <<6931, 10000>>
Ln2Hi == <<6932, 10000>>

\* log1p(s) for s >= 0 is known to the model by an enclosure only: with
\* 1 + s = 2^k * (1 + f), 0 <= f < 1, it is k*log(2) + log1p(f), and
\* f - f^2/2 <= log1p(f) <= f - f^2/2 + f^3/3.
Log1pSplit(s) ==
    LET k == frexp_exp(RAdd(RInt(1), s)) - 1
    IN  [k |-> k, f |-> RSub(RDiv(RAdd(RInt(1), s), RInt(Pow2(k))), RInt(1))]

Log1pLo(s) ==
    LET p == Log1pSplit(s)
    IN  RAdd(RMul(RInt(p.k), Ln2Lo),
             RSub(p.f, RDiv(RMul(p.f, p.f), RInt(2))))

Log1pHi(s) ==
    LET p == Log1pSplit(s)
    IN  RAdd(RAdd(RMul(RInt(p.k), Ln2Hi),
                  RSub(p.f, RDiv(RMul(p.f, p.f), RInt(2)))),
             RDiv(RMul(p.f, RMul(p.f, p.f)), RInt(3)))

BlurScale == RDiv(RMul(RInt(64), BLUR_PRECISION), RInt(POSITION_PRECISION))

ShadowMaskOf_None(ord) == 0

\* ((uint32_t) 1 << ord) - 1
ShadowMaskOf(ord) == Pow2(ord) - 1

\* quantize_blur: the mask it stores, and the indices it can return (one
\* value wherever the enclosure of log1p settles the rounding)
quantize_blur_mask(radius) ==
    LET r == RMul(radius, BlurScale)
    IN  ShadowMaskOf(frexp_exp(RMul(RAdd(RInt(1), r),
                                    Rat(POSITION_PRECISION, 2))))

quantize_blur(radius) ==
    LET r == RMul(radius, BlurScale)
    IN  lrint(RDiv(Log1pLo(r), BLUR_PRECISION)) ..
        lrint(RDiv(Log1pHi(r), BLUR_PRECISION))

MaskedOffset_Truncated(x, shadow_mask) ==
    (x \div (shadow_mask + 1)) * (shadow_mask + 1)

\* (x + (shadow_mask >> 1)) & ~shadow_mask on a two's complement int32_t,
\* the mask being 2^ord - 1: the low ord bits are cleared
MaskedOffset(x, shadow_mask) ==
    ((x + (shadow_mask \div 2)) \div (shadow_mask + 1)) * (shadow_mask + 1)

\* The FILTER_NONZERO_SHADOW bit of a run as render_and_combine_glyphs
\* leaves it: set for a non-zero shadow, cleared again when the run has
\* neither a border nor a filled-in shadow.
NonzeroShadow(shadow_x, shadow_y, border, fill_in_shadow) ==
    (shadow_x # 0 \/ shadow_y # 0) /\ (border \/ fill_in_shadow)

-----------------------------------------------------------------------------
(* SpecBlur: the filter of a new run *)

\* arguments of quantize_blur: info->blur * blur_scale
BlurRadii ==
    {RInt(0), <<1, 2>>, RInt(1), RInt(2), RInt(32), RInt(96), RInt(224)}

\* info->shadow_x * border_scale and the same for y, in 1/128 pixel
ShadowOffsets == {-25, -13, -8, -1, 0, 1, 7, 8, 9, 24}

BlurIdle ==
    /\ bl_radius = RInt(0)
    /\ bl_shadow = <<0, 0>>
    /\ bl_border = FALSE
    /\ bl_fill_in = FALSE
    /\ bl_x = <<0, 0>>
    /\ bl_mask = 0
    /\ bl_filter = [blur |-> 0, flags_shadow |-> FALSE, shadow |-> <<0, 0>>]
    /\ bl_pc = "idle"

BlurInit == BlurIdle

\* render_and_combine_glyphs, lines 1890-1944, for the glyph that opens a run
NewRunFilter ==
    /\ bl_pc = "idle"
    /\ \E radius \in BlurRadii, sx \in ShadowOffsets, sy \in ShadowOffsets,
          border \in BOOLEAN, fill \in BOOLEAN :
         \E blur \in quantize_blur(radius) :
           LET shadow_mask == quantize_blur_mask(radius)
               nz == NonzeroShadow(sx, sy, border,
                                   fill /\ (sx # 0 \/ sy # 0))
               x == double_to_d6(sx)
               y == double_to_d6(sy)
           IN  /\ bl_radius' = radius
               /\ bl_shadow' = <<sx, sy>>
               /\ bl_border' = border
               /\ bl_fill_in' = (fill /\ (sx # 0 \/ sy # 0))
               /\ bl_mask' = shadow_mask
               /\ bl_x' = IF nz THEN <<x, y>> ELSE <<0, 0>>
               /\ bl_filter' =
                    [blur |-> blur,
                     flags_shadow |-> nz,
                     shadow |-> IF nz
                                THEN <<MaskedOffset(x, shadow_mask),
                                       MaskedOffset(y, shadow_mask)>>
                                ELSE <<0, 0>>]
               /\ bl_pc' = "run"

-----------------------------------------------------------------------------
(* quantize_transform and restore_transform *)

MAX_PERSP_SCALE == 16
SUBPIXEL_ORDER == 3

\* const double max_val = 1000000
max_val == 1000000

\* a matrix double m[3][3] is a function m[i][j] with i, j in 0 .. 2
Matrix(m00, m01, m02, m10, m11, m12, m20, m21, m22) ==
    [i \in 0..2 |->
       [j \in 0..2 |->
          IF i = 0 THEN (IF j = 0 THEN m00 ELSE IF j = 1 THEN m01 ELSE m02)
          ELSE IF i = 1 THEN (IF j = 0 THEN m10 ELSE IF j = 1 THEN m11 ELSE m12)
          ELSE (IF j = 0 THEN m20 ELSE IF j = 1 THEN m21 ELSE m22)]]

\* x0, y0, dx, dy of lines 238-241 and 377-380
BoxX0(bbox) == Rat(bbox.x_min + bbox.x_max, 2)
BoxY0(bbox) == Rat(bbox.y_min + bbox.y_max, 2)
BoxDx(bbox) == RAdd(Rat(bbox.x_max - bbox.x_min, 2), RInt(64))
BoxDy(bbox) == RAdd(Rat(bbox.y_max - bbox.y_min, 2), RInt(64))
BoxD(bbox, j) == IF j = 0 THEN BoxDx(bbox) ELSE BoxDy(bbox)

\* lines 246-247: the input origin moves to the centre of the box
Recentre(m, bbox) ==
    [i \in 0..2 |->
       [j \in 0..2 |->
          IF j = 2
          THEN RAdd(m[i][2], RAdd(RMul(m[i][0], BoxX0(bbox)),
                                  RMul(m[i][1], BoxY0(bbox))))
          ELSE m[i][j]]]

\* line 254: the image of the centre of the box; m is recentred, m[2][2] > 0
Center(m) == [i \in 0..1 |-> RDiv(m[i][2], m[2][2])]

\* lines 257-259: the output origin moves to the image of the centre
Uncentre(m, center) ==
    [i \in 0..2 |->
       [j \in 0..2 |->
          IF i < 2 /\ j < 2
          THEN RSub(m[i][j], RMul(m[2][j], center[i]))
          ELSE m[i][j]]]

\* lines 261-270: the centre in units of 64 >> SUBPIXEL_ORDER, less the
\* offset of the run when the glyph is not its first
ScaledCenter(center, offset, first) ==
    [i \in 0..1 |->
       RSub(RDiv(center[i], RInt(64 \div Pow2(SUBPIXEL_ORDER))),
            IF first THEN RInt(0) ELSE offset[i])]

InRange_Inclusive(v) == RLe(fabs(v), RInt(max_val))

\* fabs(v) < max_val
InRange(v) == RLt(fabs(v), RInt(max_val))

\* lines 277-280: mul[j]
MinZ(m, bbox) ==
    RSub(RSub(m[2][2], RMul(fabs(m[2][0]), BoxDx(bbox))),
         RMul(fabs(m[2][1]), BoxDy(bbox)))

ClampedZ(m, bbox) ==
    FFMAX(MinZ(m, bbox), RDiv(m[2][2], RInt(MAX_PERSP_SCALE)))

Mul(m, bbox) ==
    LET w == RDiv(RDiv(RInt(1), RInt(POSITION_PRECISION)), ClampedZ(m, bbox))
    IN  [j \in 0..1 |-> RMul(BoxD(bbox, j), w)]

\* lines 325-331: val of the four coefficients of the rows x and y
AffineVals(m, bbox) ==
    [i \in 0..1 |-> [j \in 0..1 |-> RMul(m[i][j], Mul(m, bbox)[j])]]

\* lines 347-349: FFMAX(qmx, qmy)
QmMax(qm) ==
    LET qmx == IAbs(qm[0][0]) + IAbs(qm[0][1])
        qmy == IAbs(qm[1][0]) + IAbs(qm[1][1])
    IN  IF qmx > qmy THEN qmx ELSE qmy

\* lines 349-357: val of the two coefficients of the row z
PerspVals(m, bbox, qm) ==
    LET w == RInt(POSITION_PRECISION * QmMax(qm))
    IN  [j \in 0..1 |-> RMul(m[2][j], RMul(Mul(m, bbox)[j], w))]

NoKey ==
    [pos |-> <<0, 0>>, offset |-> <<0, 0>>,
     matrix_x |-> <<0, 0>>, matrix_y |-> <<0, 0>>, matrix_z |-> <<0, 0>>]

\* quantize_transform: what it returns, where it returned, the offset of
\* the run afterwards, and pos together with the fields of the key it
\* filled (nothing is stored on failure)
quantize_transform(m_in, bbox, offset, first) ==
    LET m1 == Recentre(m_in, bbox)
        failed(at) == [ret |-> FALSE, at |-> at, offset |-> offset,
                       key |-> NoKey]
    IN  IF RLe(m1[2][2], RInt(0)) THEN failed("z")
        ELSE
        LET center == Center(m1)
            m == Uncentre(m1, center)
            sc == ScaledCenter(center, offset, first)
        IN  IF ~(InRange(sc[0]) /\ InRange(sc[1])) THEN failed("center")
            ELSE
            LET qr == [i \in 0..1 |-> lrint(sc[i])]
                val == AffineVals(m, bbox)
            IN  IF \E i \in 0..1, j \in 0..1 : ~InRange(val[i][j])
                THEN failed("affine")
                ELSE
                LET qm == [i \in 0..1 |-> [j \in 0..1 |-> lrint(val[i][j])]]
                    zval == PerspVals(m, bbox, qm)
                IN  IF \E j \in 0..1 : ~InRange(zval[j])
                    THEN failed("persp")
                    ELSE
                    [ret |-> TRUE, at |-> "end",
                     offset |-> IF first
                                THEN [i \in 0..1 |-> RSub(sc[i], RInt(qr[i]))]
                                ELSE offset,
                     key |->
                       [pos |-> <<qr[0] \div Pow2(SUBPIXEL_ORDER),
                                  qr[1] \div Pow2(SUBPIXEL_ORDER)>>,
                        offset |-> <<qr[0] % Pow2(SUBPIXEL_ORDER),
                                     qr[1] % Pow2(SUBPIXEL_ORDER)>>,
                        matrix_x |-> <<qm[0][0], qm[0][1]>>,
                        matrix_y |-> <<qm[1][0], qm[1][1]>>,
                        matrix_z |-> <<lrint(zval[0]), lrint(zval[1])>>]]

\* restore_transform.  With matrix_x and matrix_y all zero, scale_z is
\* 1.0 / POSITION_PRECISION / 0, that is infinite, and every coefficient
\* the function stores is infinite or not a number: finite is FALSE then.
restore_transform(key, bbox) ==
    LET qmax == QmMax([i \in 0..1 |->
                         [j \in 0..1 |-> IF i = 0 THEN key.matrix_x[j + 1]
                                                  ELSE key.matrix_y[j + 1]]])
    IN  IF qmax = 0
        THEN [finite |-> FALSE,
              m |-> Matrix(RInt(0), RInt(0), RInt(0), RInt(0), RInt(0),
                           RInt(0), RInt(0), RInt(0), RInt(0))]
        ELSE
        LET q == [j \in 0..1 |-> RDiv(RInt(POSITION_PRECISION), BoxD(bbox, j))]
            scale_z == RDiv(Rat(1, POSITION_PRECISION), RInt(qmax))
            mz == [j \in 0..1 |->
                     RMul(RMul(RInt(key.matrix_z[j + 1]), q[j]), scale_z)]
            mzz == FFMIN(RAdd(RInt(1),
                              RAdd(RMul(fabs(mz[0]), BoxDx(bbox)),
                                   RMul(fabs(mz[1]), BoxDy(bbox)))),
                         RInt(MAX_PERSP_SCALE))
            center == [i \in 0..1 |->
                         RInt(key.offset[i + 1] * (64 \div Pow2(SUBPIXEL_ORDER)))]
            m1 == [i \in 0..2 |->
                     [j \in 0..2 |->
                        IF i = 2 THEN (IF j = 2 THEN mzz ELSE mz[j])
                        ELSE IF j = 2 THEN RMul(mzz, center[i])
                        ELSE RAdd(RMul(RInt(IF i = 0 THEN key.matrix_x[j + 1]
                                                     ELSE key.matrix_y[j + 1]),
                                       q[j]),
                                  RMul(mz[j], center[i]))]]
        IN  [finite |-> TRUE,
             m |-> [i \in 0..2 |->
                      [j \in 0..2 |->
                         IF j = 2
                         THEN RSub(m1[i][2],
                                   RAdd(RMul(m1[i][0], BoxX0(bbox)),
                                        RMul(m1[i][1], BoxY0(bbox))))
                         ELSE m1[i][j]]]]

\* z of a point under m, and its image when z > 0 (lines 230-233)
ZAt(m, p) ==
    RAdd(RAdd(RMul(m[2][0], p[1]), RMul(m[2][1], p[2])), m[2][2])

ImageAt(m, p) ==
    [i \in 0..1 |->
       RDiv(RAdd(RAdd(RMul(m[i][0], p[1]), RMul(m[i][1], p[2])), m[i][2]),
            ZAt(m, p))]

\* the corners and the centre of the box padded by 64 units
BoxPoints(bbox) ==
    {<<RAdd(BoxX0(bbox), RMul(RInt(sx), BoxDx(bbox))),
       RAdd(BoxY0(bbox), RMul(RInt(sy), BoxDy(bbox)))>> :
         sx \in {-1, 0, 1}, sy \in {-1, 0, 1}}

-----------------------------------------------------------------------------
(* SpecTransform: a bitmap key made by quantize_transform and the matrix  *)
(* ass_bitmap_construct restores from it                                   *)

\* the control box of the outline of the key
BBoxes ==
    {[x_min |-> 0, x_max |-> 0, y_min |-> 0, y_max |-> 0],
     [x_min |-> 0, x_max |-> 128, y_min |-> -128, y_max |-> 0]}

\* m[0][0], m[0][1], m[1][0], m[1][1]
AffineParts ==
    {<<RInt(1), RInt(0), RInt(0), RInt(1)>>,
     <<RInt(0), RInt(0), RInt(0), RInt(0)>>,
     <<RInt(2), RInt(0), RInt(0), RInt(2)>>,
     <<RInt(0), RInt(-1), RInt(1), RInt(0)>>,
     <<RInt(1), <<1, 2>>, RInt(0), RInt(1)>>,
     <<Rat(1, 32), RInt(0), RInt(0), Rat(1, 32)>>,
     <<RInt(4000), RInt(0), RInt(0), RInt(4000)>>,
     <<Rat(1999999, 16), RInt(0), RInt(0), RInt(1)>>,
     <<RInt(125000), RInt(0), RInt(0), RInt(1)>>}

\* m[0][2], m[1][2]
Translations ==
    {<<RInt(0), RInt(0)>>, <<RInt(100), RInt(-37)>>,
     <<RInt(7999996), RInt(0)>>, <<RInt(0), RInt(-8000000)>>}

\* m[2][0], m[2][1], m[2][2]
PerspRows ==
    {<<RInt(0), RInt(0), RInt(1)>>,
     <<RInt(0), RInt(0), RInt(2)>>,
     <<RInt(0), RInt(0), RInt(0)>>,
     <<RInt(0), RInt(0), RInt(-1)>>,
     <<Rat(1, 128), RInt(0), RInt(1)>>,
     <<Rat(-1, 128), Rat(1, 256), RInt(1)>>,
     <<Rat(1, 64), RInt(0), RInt(1)>>,
     <<Rat(7, 512), RInt(0), RInt(1)>>}

\* the offset of the run: what quantize_transform stored for its first glyph
RunOffsets == {<<RInt(0), RInt(0)>>, <<Rat(1, 2), Rat(-1, 4)>>}

NoMatrix ==
    Matrix(RInt(0), RInt(0), RInt(0), RInt(0), RInt(0), RInt(0),
           RInt(0), RInt(0), RInt(0))

TransformIdle ==
    /\ qt_m = NoMatrix
    /\ qt_bbox = [x_min |-> 0, x_max |-> 0, y_min |-> 0, y_max |-> 0]
    /\ qt_offset = [i \in 0..1 |-> RInt(0)]
    /\ qt_first = TRUE
    /\ qt_out = [ret |-> FALSE, at |-> "z", offset |-> [i \in 0..1 |-> RInt(0)],
                 key |-> NoKey]
    /\ qt_restored = [finite |-> TRUE, m |-> NoMatrix]
    /\ qt_pc = "idle"

TransformInit == TransformIdle

\* get_bitmap_glyph, lines 910-916, followed on success by the
\* restore_transform of ass_bitmap_construct (the bitmap is not cached yet)
QuantizeAndRestore ==
    /\ qt_pc = "idle"
    /\ \E a \in AffineParts, t \in Translations, p \in PerspRows,
          bbox \in BBoxes, first \in BOOLEAN, off \in RunOffsets :
         LET m == Matrix(a[1], a[2], t[1], a[3], a[4], t[2], p[1], p[2], p[3])
             offset == [i \in 0..1 |-> off[i + 1]]
             out == quantize_transform(m, bbox, offset, first)
         IN  /\ qt_m' = m
             /\ qt_bbox' = bbox
             /\ qt_offset' = offset
             /\ qt_first' = first
             /\ qt_out' = out
             /\ qt_restored' = IF out.ret
                               THEN restore_transform(out.key, bbox)
                               ELSE [finite |-> TRUE, m |-> NoMatrix]
             /\ qt_pc' = "done"

-----------------------------------------------------------------------------
(* handle_selective_style_overrides *)

\* The bits of ASS_OverrideBits the function tests, by name; a bitmask is
\* the set of the bits that are set in it.
OverrideBits ==
    {"STYLE", "SELECTIVE_FONT_SCALE", "FONT_SIZE_FIELDS", "FONT_NAME",
     "COLORS", "ATTRIBUTES", "BORDER", "ALIGNMENT", "JUSTIFY", "MARGINS",
     "FULL_STYLE"}

ImpliedByStyle_NoBorder ==
    {"FONT_NAME", "FONT_SIZE_FIELDS", "COLORS", "ATTRIBUTES"}

\* lines 469-474: the bits ASS_OVERRIDE_BIT_STYLE stands for
ImpliedByStyle ==
    {"FONT_NAME", "FONT_SIZE_FIELDS", "COLORS", "BORDER", "ATTRIBUTES"}

ScaleOf_One(PlayResY) == RInt(1)

\* line 483
ScaleOf(PlayResY) == Rat(PlayResY, 288)

\* The effective style (override_style_temp_storage, also state.style),
\* state.overrides and state.apply_font_scale the function leaves.
\* rstyle_in is <<>> for NULL or <<s>> for the style s; user already has
\* the Name of line 451.
handle_selective_style_overrides(script, user, rstyle_in, explicit, selective_style_overrides, PlayResY) ==
    LET rstyle == IF rstyle_in = <<>> THEN script ELSE rstyle_in[1]
        req0 == IF explicit THEN {} ELSE selective_style_overrides
        requested == IF "STYLE" \in req0 THEN req0 \cup ImpliedByStyle
                                         ELSE req0
        scale == ScaleOf(PlayResY)
        n0 == IF "FULL_STYLE" \in requested THEN user ELSE rstyle
        n1 == IF "FONT_SIZE_FIELDS" \in requested
              THEN [n0 EXCEPT !.FontSize = RMul(user.FontSize, scale),
                              !.Spacing = RMul(user.Spacing, scale),
                              !.ScaleX = user.ScaleX,
                              !.ScaleY = user.ScaleY]
              ELSE n0
        n2 == IF "FONT_NAME" \in requested
              THEN [n1 EXCEPT !.FontName = user.FontName,
                              !.treat_fontname_as_pattern =
                                  user.treat_fontname_as_pattern]
              ELSE n1
        n3 == IF "COLORS" \in requested
              THEN [n2 EXCEPT !.PrimaryColour = user.PrimaryColour,
                              !.SecondaryColour = user.SecondaryColour,
                              !.OutlineColour = user.OutlineColour,
                              !.BackColour = user.BackColour]
              ELSE n2
        n4 == IF "ATTRIBUTES" \in requested
              THEN [n3 EXCEPT !.Bold = user.Bold,
                              !.Italic = user.Italic,
                              !.Underline = user.Underline,
                              !.StrikeOut = user.StrikeOut]
              ELSE n3
        n5 == IF "BORDER" \in requested
              THEN [n4 EXCEPT !.BorderStyle = user.BorderStyle,
                              !.Outline = RMul(user.Outline, scale),
                              !.Shadow = RMul(user.Shadow, scale)]
              ELSE n4
        n6 == IF "ALIGNMENT" \in requested
              THEN [n5 EXCEPT !.Alignment = user.Alignment]
              ELSE n5
        n7 == IF "JUSTIFY" \in requested
              THEN [n6 EXCEPT !.Justify = user.Justify]
              ELSE n6
        n8 == IF "MARGINS" \in requested
              THEN [n7 EXCEPT !.MarginL = user.MarginL,
                              !.MarginR = user.MarginR,
                              !.MarginV = user.MarginV]
              ELSE n7
        new == IF n8.FontName = "NULL"
               THEN [n8 EXCEPT !.FontName = rstyle.FontName]
               ELSE n8
    IN  [style |-> new,
         overrides |-> requested,
         apply_font_scale |->
             (~explicit \/ "SELECTIVE_FONT_SCALE" \notin selective_style_overrides)]

-----------------------------------------------------------------------------
(* SpecStyle: the effective style of an event *)

\* a style all of whose fields carry the tag k, so that the origin of every
\* field of the effective style can be told
StyleOf(k, name, font) ==
    [Name |-> name, FontName |-> font, FontSize |-> RInt(10 * k),
     PrimaryColour |-> 1000 + k, SecondaryColour |-> 2000 + k,
     OutlineColour |-> 3000 + k, BackColour |-> 4000 + k,
     Bold |-> 100 * k, Italic |-> k, Underline |-> k, StrikeOut |-> k,
     ScaleX |-> Rat(k, 2), ScaleY |-> Rat(k, 4), Spacing |-> Rat(k, 2),
     Angle |-> RInt(k), BorderStyle |-> k, Outline |-> RInt(k),
     Shadow |-> Rat(k, 4), Alignment |-> k, MarginL |-> 10 + k,
     MarginR |-> 20 + k, MarginV |-> 30 + k, Encoding |-> k,
     treat_fontname_as_pattern |-> k, Blur |-> RInt(k), Justify |-> k]

ScriptStyle == StyleOf(1, "Default", "ScriptFont")
ResetStyle == StyleOf(2, "Alt", "ResetFont")

\* user_override_style: FontName is NULL until the application sets one
UserStyles ==
    {StyleOf(3, "OverrideStyle", f) : f \in {"NULL", "UserFont"}}

PlayResYs == {144, 288, 576}

StyleIdle ==
    /\ so_requested = {}
    /\ so_explicit = FALSE
    /\ so_rstyle = <<>>
    /\ so_PlayResY = 288
    /\ so_user = StyleOf(3, "OverrideStyle", "NULL")
    /\ so_state = [style |-> ScriptStyle, overrides |-> {},
                   apply_font_scale |-> TRUE]
    /\ so_pc = "idle"

StyleInit == StyleIdle

\* one call of handle_selective_style_overrides, from init_render_context
\* (rstyle NULL) or from a \r tag (rstyle the style it names)
SelectStyle ==
    /\ so_pc = "idle"
    /\ \E requested \in SUBSET OverrideBits, explicit \in BOOLEAN,
          rstyle \in {<<>>, <<ResetStyle>>}, user \in UserStyles,
          PlayResY \in PlayResYs :
         /\ so_requested' = requested
         /\ so_explicit' = explicit
         /\ so_rstyle' = rstyle
         /\ so_PlayResY' = PlayResY
         /\ so_user' = user
         /\ so_state' = handle_selective_style_overrides(
                            ScriptStyle, user, rstyle, explicit, requested,
                            PlayResY)
         /\ so_pc' = "done"

-----------------------------------------------------------------------------
(* The render context of an event, the caches and the image lists of a   *)
(* frame                                                                   *)

\* The per-event part of render_priv->state and text_info: the event it was
\* set up for (0 before any), whether state.font, state.family and
\* state.clip_drawing_text hold something, text_info.length, and the number
\* of glyphs with a drawing_text.
NoContext ==
    [event |-> 0, font |-> FALSE, family |-> FALSE,
     clip_drawing_text |-> FALSE, length |-> 0, drawing_texts |-> 0]

free_render_context_KeepLength(ctx) ==
    [ctx EXCEPT !.font = FALSE, !.family = FALSE,
                !.clip_drawing_text = FALSE, !.drawing_texts = 0]

free_render_context(ctx) ==
    [ctx EXCEPT !.font = FALSE, !.family = FALSE,
                !.clip_drawing_text = FALSE, !.drawing_texts = 0,
                !.length = 0]

\* init_render_context: state.event, and through reset_render_context the
\* family (strdup, taken to succeed) and the font (update_font)
init_render_context(ctx, e) ==
    [ctx EXCEPT !.event = e, !.family = TRUE, !.font = TRUE]

\* the glyphs parse_events makes of a text: two for a plain text, one
\* drawing for a text with a \p drawing (which also has a vector \clip),
\* none for a text of override blocks only
GlyphsOf(text) ==
    IF text = "text" THEN 2 ELSE IF text = "drawing" THEN 1 ELSE 0

\* parse_events; ok says whether it reaches return true
parse_events(ctx, text, ok) ==
    IF ok
    THEN [ctx EXCEPT !.length = GlyphsOf(text),
                     !.drawing_texts = IF text = "drawing" THEN 1 ELSE 0,
                     !.clip_drawing_text = (text = "drawing")]
    ELSE free_render_context(ctx)

\* the render context when ass_render_event returns; reorders says whether
\* ass_shaper_reorder gives reorder_text a map
RenderEventContext(ctx, ev, e, parses, shapes, reorders) ==
    IF ev.Style >= NStyles \/ ev.Text = "NULL" THEN ctx
    ELSE
    LET c1 == init_render_context(free_render_context(ctx), e)
        c2 == parse_events(c1, ev.Text, parses)
    IN  IF ~parses THEN c2
        ELSE IF c2.length = 0 THEN free_render_context(c2)
        ELSE IF ~shapes THEN free_render_context(c2)
        ELSE IF ~reorders THEN free_render_context(c2)
        ELSE c2

check_cache_limits_BitmapFirst == <<"bitmap", "composite", "outline">>

\* check_cache_limits: the caches it cuts, in the order of the calls
check_cache_limits == <<"composite", "bitmap", "outline">>

\* An image list is known by a number from 1 on, 0 is NULL.  lists[l] has
\* the ref_count of the head of list l and says whether the list was
\* allocated and whether it was freed.
NoList == [ref_count |-> 0, allocated |-> FALSE, freed |-> FALSE]

ass_frame_ref(lists, img) ==
    IF img = 0 THEN lists
    ELSE [lists EXCEPT ![img].ref_count = @ + 1]

ass_frame_unref(lists, img) ==
    IF img = 0 THEN lists
    ELSE IF lists[img].ref_count - 1 # 0
         THEN [lists EXCEPT ![img].ref_count = @ - 1]
         ELSE [lists EXCEPT ![img].ref_count = 0, ![img].freed = TRUE]

-----------------------------------------------------------------------------
(* SpecLife: a renderer from ass_renderer_init to ass_renderer_done, its  *)
(* frames taken one loop iteration at a time                               *)

LifeTexts == {"text", "drawing", "comment", "NULL"}

LifeContents ==
    { <<0, t>> : t \in LifeTexts } \cup { <<NStyles, "text">> }

LifeTracks ==
    UNION { { [i \in 1..n |->
                 TrackEvent(i, q[i][1], 1, 0, q[i][2][1], q[i][2][2])] :
                q \in [1..n -> (0..MaxStart) \X LifeContents] } :
            n \in 0..NEvents }

LifeSettings ==
    { SettingsOk,
      [SettingsOk EXCEPT !.fontselect = FALSE],
      [SettingsOk EXCEPT !.frame_width = 0],
      [SettingsOk EXCEPT !.frame_width = 0, !.frame_height = 0] }

\* settings.par, orig_width, orig_height, storage_width and storage_height
\* as the caller's ass_set_* calls left them before a frame
LifePars ==
    { [par |-> RInt(0), orig |-> <<1, 1>>, storage |-> <<0, 0>>],
      [par |-> RInt(2), orig |-> <<1, 1>>, storage |-> <<1, 2>>],
      [par |-> RInt(0), orig |-> <<2, 1>>, storage |-> <<1, 2>>] }

\* the PAR correction of ass_start_frame: the value of font_scale_x
par_correction(s) ==
    IF s.par # RInt(0) THEN s.par
    ELSE IF s.orig[1] # 0 /\ s.orig[2] # 0 /\ s.storage[1] # 0 /\ s.storage[2] # 0
         THEN RDiv(Rat(s.orig[1], s.orig[2]), Rat(s.storage[1], s.storage[2]))
         ELSE RInt(1)

\* track, time and font_scale_x of the renderer after ass_renderer_init
FreshPriv == [track |-> <<>>, time |-> 0, font_scale_x |-> RInt(0)]

\* what ass_detect_change can find between two lists given by number: two
\* empty lists are equal, an empty and a non-empty one differ in content
LifeChange(prev, root) ==
    IF prev = 0 /\ root = 0 THEN {0}
    ELSE IF prev = 0 \/ root = 0 THEN {2}
    ELSE 0..2

LifeLists == 1..MaxLifeFrames

LifeIdle ==
    /\ lf_settings = SettingsOk
    /\ lf_track = <<>>
    /\ lf_ctx = NoContext
    /\ lf_root = 0
    /\ lf_prev_root = 0
    /\ lf_lists = [l \in LifeLists |-> NoList]
    /\ lf_caller = [l \in LifeLists |-> 0]
    /\ lf_known = [l \in LifeLists |-> 0]
    /\ lf_op = <<"none", 0, [l \in LifeLists |-> NoList]>>
    /\ lf_api = "none"
    /\ lf_now = 0
    /\ lf_i = 0
    /\ lf_cnt = 0
    /\ lf_cuts = <<>>
    /\ lf_events = <<>>
    /\ lf_ret = 0
    /\ lf_frames = 0
    /\ lf_accepted = 0
    /\ lf_pc = "idle"
    /\ lf_priv = FreshPriv
    /\ lf_change = -1

\* after ass_renderer_init (calloc), with some settings and some track
LifeInit ==
    /\ lf_settings \in LifeSettings
    /\ lf_track \in LifeTracks
    /\ lf_ctx = NoContext
    /\ lf_root = 0
    /\ lf_prev_root = 0
    /\ lf_lists = [l \in LifeLists |-> NoList]
    /\ lf_caller = [l \in LifeLists |-> 0]
    /\ lf_known = [l \in LifeLists |-> 0]
    /\ lf_op = <<"none", 0, [l \in LifeLists |-> NoList]>>
    /\ lf_api = "none"
    /\ lf_now = 0
    /\ lf_i = 0
    /\ lf_cnt = 0
    /\ lf_cuts = <<>>
    /\ lf_events = <<>>
    /\ lf_ret = 0
    /\ lf_frames = 0
    /\ lf_accepted = 0
    /\ lf_pc = "idle"
    /\ lf_priv = FreshPriv
    /\ lf_change = -1

NoOp == <<"none", 0, lf_lists>>

\* ass_render_frame or ass_glyph_info is called and ass_start_frame
\* rejects the frame: both return NULL
StartFrameRejected ==
    /\ lf_pc = "idle"
    /\ lf_frames < MaxLifeFrames
    \* the track passed is the one of the last call, possibly with all its
    \* events removed, or one of another library
    /\ \E tr \in {lf_track, <<>>}, lib \in BOOLEAN :
         LET st == [lf_settings EXCEPT !.same_library = lib]
         IN  /\ ~StartFrameAccepts(st, tr)
             /\ lf_settings' = st
             /\ lf_track' = tr
    /\ \E api \in {"ass_render_frame", "ass_glyph_info"}, now \in 0..MaxNow,
          want_change \in BOOLEAN :
         /\ api = "ass_glyph_info" => ~want_change
         /\ lf_api' = api
         /\ lf_now' = now
         /\ lf_change' = IF want_change THEN 2 ELSE -1
    /\ lf_frames' = lf_frames + 1
    /\ lf_i' = 0
    /\ lf_cnt' = 0
    /\ lf_cuts' = <<>>
    /\ lf_events' = <<>>
    /\ lf_ret' = 0
    /\ lf_op' = NoOp
    /\ lf_pc' = "done"
    /\ UNCHANGED <<lf_priv, lf_ctx, lf_root, lf_prev_root, lf_lists, lf_caller,
                   lf_known, lf_accepted>>

\* ass_render_frame or ass_glyph_info is called and ass_start_frame
\* accepts the frame: the image list of the last frame becomes the
\* previous one and check_cache_limits runs
StartFrame ==
    /\ lf_pc = "idle"
    /\ lf_frames < MaxLifeFrames
    \* the track passed is of the renderer's library
    /\ StartFrameAccepts([lf_settings EXCEPT !.same_library = TRUE], lf_track)
    /\ lf_settings' = [lf_settings EXCEPT !.same_library = TRUE]
    /\ \E api \in {"ass_render_frame", "ass_glyph_info"}, now \in 0..MaxNow,
          want_change \in BOOLEAN, s \in LifePars :
         /\ api = "ass_glyph_info" => ~want_change
         /\ lf_api' = api
         /\ lf_now' = now
         /\ lf_change' = IF want_change THEN -2 ELSE -1
         /\ lf_priv' = [track |-> <<lf_track>>, time |-> now,
                        font_scale_x |-> par_correction(s)]
    /\ lf_frames' = lf_frames + 1
    /\ lf_accepted' = lf_accepted + 1
    /\ lf_prev_root' = lf_root
    /\ lf_root' = 0
    /\ lf_cuts' = [k \in 1..Len(check_cache_limits) |->
                     [cache |-> check_cache_limits[k], rendered |-> 0]]
    /\ lf_events' = <<>>
    /\ lf_i' = 1
    /\ lf_cnt' = 0
    /\ lf_ret' = 0
    /\ lf_op' = NoOp
    /\ lf_pc' = "loop"
    /\ UNCHANGED <<lf_track, lf_ctx, lf_lists, lf_caller, lf_known>>

\* one iteration of the loop over the events on an event that is not shown
SkipEvent ==
    /\ lf_pc = "loop"
    /\ lf_i <= Len(lf_track)
    /\ ~IsActive(lf_track[lf_i], lf_now)
    /\ lf_i' = lf_i + 1
    /\ UNCHANGED <<lf_priv, lf_change, lf_settings, lf_track, lf_ctx, lf_root, lf_prev_root,
                   lf_lists, lf_caller, lf_known, lf_op, lf_api, lf_now,
                   lf_cnt, lf_cuts, lf_events, lf_ret, lf_frames,
                   lf_accepted, lf_pc>>

\* one iteration on an event that is shown: ass_render_event
RenderEvent ==
    /\ lf_pc = "loop"
    /\ lf_i <= Len(lf_track)
    /\ IsActive(lf_track[lf_i], lf_now)
    /\ \E parses \in BOOLEAN, shapes \in BOOLEAN, reorders \in BOOLEAN :
         LET ev == lf_track[lf_i]
             reaches_parse == ev.Style < NStyles /\ ev.Text # "NULL"
             reaches_shape == reaches_parse /\ parses /\ GlyphsOf(ev.Text) # 0
             ret == ass_render_event(ev, parses, shapes)
             reaches_reorder == reaches_shape /\ shapes
             after == RenderEventContext(lf_ctx, ev, lf_i, parses, shapes,
                                         reorders)
             cnt == IF ret THEN lf_cnt + 1 ELSE lf_cnt
         IN  \* the three are inputs of the calls that are made only
             /\ reaches_parse \/ parses
             /\ reaches_shape \/ shapes
             /\ reaches_reorder \/ reorders
             /\ lf_ctx' = after
             /\ lf_cnt' = cnt
             /\ lf_events' = Append(lf_events,
                                [event |-> lf_i, parses |-> parses,
                                 shapes |-> shapes, reorders |-> reorders,
                                 ret |-> ret,
                                 before |-> lf_ctx, after |-> after,
                                 cnt |-> cnt])
    /\ lf_i' = lf_i + 1
    /\ UNCHANGED <<lf_priv, lf_change, lf_settings, lf_track, lf_root, lf_prev_root, lf_lists,
                   lf_caller, lf_known, lf_op, lf_api, lf_now, lf_cuts,
                   lf_ret, lf_frames, lf_accepted, lf_pc>>

\* the lowest number no list has yet
FreshList == CHOOSE l \in LifeLists :
                /\ ~lf_lists[l].allocated
                /\ \A k \in LifeLists : k < l => lf_lists[k].allocated

\* the rest of ass_render_frame after the loop.  The sort and
\* fix_collisions (lines 2676-2687) change the slots only.  The list the
\* slots link to is no list when there is no slot; otherwise it is what
\* the slots hold, taken to be no list or a list nobody refers to yet.
FinishRenderFrame ==
    /\ lf_pc = "loop"
    /\ lf_api = "ass_render_frame"
    /\ lf_i > Len(lf_track)
    /\ \E root \in IF lf_cnt = 0 THEN {0} ELSE {0, FreshList} :
         LET made == IF root = 0 THEN lf_lists
                     ELSE [lf_lists EXCEPT ![root].allocated = TRUE]
         IN  /\ lf_root' = root
             /\ lf_lists' = ass_frame_unref(ass_frame_ref(made, root),
                                            lf_prev_root)
             /\ lf_known' = IF root = 0 THEN lf_known
                            ELSE [lf_known EXCEPT ![root] = lf_accepted]
             /\ lf_ret' = root
             /\ lf_change' \in IF lf_change = -2
                               THEN LifeChange(lf_prev_root, root) ELSE {-1}
    /\ lf_prev_root' = 0
    /\ lf_pc' = "done"
    /\ UNCHANGED <<lf_priv, lf_settings, lf_track, lf_ctx, lf_caller, lf_op, lf_api,
                   lf_now, lf_i, lf_cnt, lf_cuts, lf_events, lf_frames,
                   lf_accepted>>

\* the rest of ass_glyph_info after the loop: the glyphs of text_info are
\* copied out and the render context is released
FinishGlyphInfo ==
    /\ lf_pc = "loop"
    /\ lf_api = "ass_glyph_info"
    /\ lf_i > Len(lf_track)
    /\ lf_ret' = lf_ctx.length
    /\ lf_ctx' = free_render_context(lf_ctx)
    /\ lf_pc' = "done"
    /\ UNCHANGED <<lf_priv, lf_change, lf_settings, lf_track, lf_root, lf_prev_root, lf_lists,
                   lf_caller, lf_known, lf_op, lf_api, lf_now, lf_i, lf_cnt,
                   lf_cuts, lf_events, lf_frames, lf_accepted>>

\* the call has returned; the renderer waits for the next one
LifeReturn ==
    /\ lf_pc = "done"
    /\ lf_pc' = "idle"
    /\ UNCHANGED <<lf_priv, lf_change, lf_settings, lf_track, lf_ctx, lf_root, lf_prev_root,
                   lf_lists, lf_caller, lf_known, lf_op, lf_api, lf_now,
                   lf_i, lf_cnt, lf_cuts, lf_events, lf_ret, lf_frames,
                   lf_accepted>>

\* the lists the caller may pass: NULL and the lists it was returned that
\* are not freed
CallerLists == {0} \cup {l \in LifeLists : lf_known[l] > 0 /\ ~lf_lists[l].freed}

\* the caller calls ass_frame_ref
CallerRef ==
    /\ lf_pc = "idle"
    /\ \E img \in CallerLists :
         /\ img # 0 => lf_caller[img] < MaxCallerRefs
         /\ lf_op' = <<"ass_frame_ref", img, lf_lists>>
         /\ lf_lists' = ass_frame_ref(lf_lists, img)
         /\ lf_caller' = IF img = 0 THEN lf_caller
                         ELSE [lf_caller EXCEPT ![img] = @ + 1]
    /\ UNCHANGED <<lf_priv, lf_change, lf_settings, lf_track, lf_ctx, lf_root, lf_prev_root,
                   lf_known, lf_api, lf_now, lf_i, lf_cnt, lf_cuts,
                   lf_events, lf_ret, lf_frames, lf_accepted, lf_pc>>

\* the caller gives back a reference it took with ass_frame_unref
CallerUnref ==
    /\ lf_pc = "idle"
    /\ \E img \in CallerLists :
         /\ img # 0 => lf_caller[img] > 0
         /\ lf_op' = <<"ass_frame_unref", img, lf_lists>>
         /\ lf_lists' = ass_frame_unref(lf_lists, img)
         /\ lf_caller' = IF img = 0 THEN lf_caller
                         ELSE [lf_caller EXCEPT ![img] = @ - 1]
    /\ UNCHANGED <<lf_priv, lf_change, lf_settings, lf_track, lf_ctx, lf_root, lf_prev_root,
                   lf_known, lf_api, lf_now, lf_i, lf_cnt, lf_cuts,
                   lf_events, lf_ret, lf_frames, lf_accepted, lf_pc>>

\* ass_renderer_done: the two lists of the renderer are released
RendererDone ==
    /\ lf_pc = "idle"
    /\ lf_lists' = ass_frame_unref(ass_frame_unref(lf_lists, lf_root),
                                   lf_prev_root)
    /\ lf_op' = <<"ass_renderer_done", 0, lf_lists>>
    /\ lf_pc' = "gone"
    /\ UNCHANGED <<lf_priv, lf_change, lf_settings, lf_track, lf_ctx, lf_root, lf_prev_root,
                   lf_caller, lf_known, lf_api, lf_now, lf_i, lf_cnt,
                   lf_cuts, lf_events, lf_ret, lf_frames, lf_accepted>>

-----------------------------------------------------------------------------
(* SpecShift: shift_event applied to the images of one event *)

\* the images an event can have before shift_event: inside the frame, as
\* the renderer clips them when it makes them
ShiftImages ==
    { Image(1, h, stride, 0, 0, 0, y) :
        h \in 1..FrameHeight, stride \in 1..2, y \in 0..(FrameHeight - 1) }

ShiftInputs ==
    { [event |-> 1, detect_collisions |-> TRUE, top |-> t, height |-> FrameHeight,
       left |-> 0, width |-> 1, shift_direction |-> 1, imgs |-> <<a, b>>] :
        t \in 0..MaxTop,
        a \in { x \in ShiftImages : x.dst_y + x.h <= FrameHeight },
        b \in { x \in ShiftImages : x.dst_y + x.h <= FrameHeight } }

NoEventImages ==
    [event |-> 0, detect_collisions |-> FALSE, top |-> 0, height |-> 0,
     left |-> 0, width |-> 0, shift_direction |-> 0, imgs |-> <<>>]

ShiftIdle ==
    /\ sh_in = NoEventImages
    /\ sh_shift = 0
    /\ sh_out = NoEventImages
    /\ sh_pc = "idle"

ShiftInit == ShiftIdle

\* shift_event(render_priv, ei, shift)
ShiftEvent ==
    /\ sh_pc = "idle"
    /\ \E ei \in ShiftInputs, shift \in (-MaxShift)..MaxShift :
         /\ sh_in' = ei
         /\ sh_shift' = shift
         /\ sh_out' = shift_event(FrameHeight, ei, shift)
    /\ sh_pc' = "shifted"

-----------------------------------------------------------------------------
(* align_lines *)

\* Glyphs are numbered from 1: glyph k is text_info->glyphs[k - 1].  Widths,
\* positions, max_text_width and the shifts are in 1/64 pixel, the doubles
\* among them exact fractions; no glyph has a next glyph chained to it.

HALIGN_LEFT == 1
HALIGN_CENTER == 2
HALIGN_RIGHT == 3
ASS_JUSTIFY_LEFT == 1
ASS_JUSTIFY_CENTER == 2
ASS_JUSTIFY_RIGHT == 3

\* the test of both loops: the glyph's advance counts for its line
AlignCounts(gl) == ~gl.skip /\ gl.symbol # "\n" /\ gl.symbol # "0"

\* the first loop from i on (i counted from 0 as in the code): max_width
RECURSIVE AlignMaxWidth(_, _, _, _)
AlignMaxWidth(g, i, width, max_width) ==
    IF i > Len(g) THEN max_width
    ELSE LET at_end == i = Len(g) \/ g[i + 1].linebreak # 0
             mw == IF at_end THEN FFMAX(max_width, width) ELSE max_width
             w0 == IF at_end THEN RInt(0) ELSE width
             w1 == IF i < Len(g) /\ AlignCounts(g[i + 1])
                   THEN RAdd(w0, RInt(g[i + 1].adv)) ELSE w0
         IN  AlignMaxWidth(g, i + 1, w1, mw)

\* a left-aligned line justified to the right is moved by max_width
AlignShift_LeftRightByMax(halign, justify, max_text_width, max_width, width) ==
    IF halign = HALIGN_LEFT /\ justify = ASS_JUSTIFY_RIGHT THEN max_width
    ELSE RInt(0)

\* the shift of a line of the given width
AlignShift(halign, justify, max_text_width, max_width, width) ==
    IF halign = HALIGN_LEFT
    THEN IF justify = ASS_JUSTIFY_RIGHT THEN RSub(max_width, width)
         ELSE IF justify = ASS_JUSTIFY_CENTER
              THEN RDiv(RSub(max_width, width), RInt(2))
              ELSE RInt(0)
    ELSE IF halign = HALIGN_RIGHT
    THEN IF justify = ASS_JUSTIFY_LEFT THEN RSub(max_text_width, max_width)
         ELSE IF justify = ASS_JUSTIFY_CENTER
              THEN RAdd(RSub(max_text_width, max_width),
                        RDiv(RSub(max_width, width), RInt(2)))
              ELSE RSub(max_text_width, width)
    ELSE IF halign = HALIGN_CENTER
    THEN IF justify = ASS_JUSTIFY_LEFT
         THEN RDiv(RSub(max_text_width, max_width), RInt(2))
         ELSE IF justify = ASS_JUSTIFY_RIGHT
              THEN RSub(RAdd(RDiv(RSub(max_text_width, max_width), RInt(2)),
                             max_width), width)
              ELSE RDiv(RSub(max_text_width, width), RInt(2))
    ELSE RInt(0)

\* the glyphs last_break + 1 .. i - 1 (from 0) moved by double_to_d6(shift)
AlignMove(g, last_break, i, shift) ==
    [k \in 1..Len(g) |->
        IF last_break + 1 <= k - 1 /\ k - 1 < i
        THEN [g[k] EXCEPT !.pos_x = @ + lrint(shift)] ELSE g[k]]

\* the second loop from i on: the glyphs, and for every line end met its
\* glyphs (from 1), its width and its shift
RECURSIVE AlignLoop(_, _, _, _, _, _, _, _, _)
AlignLoop(g, i, width, last_break, halign, justify, max_text_width, max_width, lines) ==
    IF i > Len(g) THEN [g |-> g, lines |-> lines]
    ELSE LET at_end == i = Len(g) \/ g[i + 1].linebreak # 0
             shift == AlignShift(halign, justify, max_text_width, max_width, width)
             g1 == IF at_end THEN AlignMove(g, last_break, i, shift) ELSE g
             l1 == IF at_end
                   THEN Append(lines, [first |-> last_break + 2, last |-> i,
                                       width |-> width, shift |-> shift])
                   ELSE lines
             lb == IF at_end THEN i - 1 ELSE last_break
             w0 == IF at_end THEN RInt(0) ELSE width
             w1 == IF i < Len(g) /\ AlignCounts(g[i + 1])
                   THEN RAdd(w0, RInt(g[i + 1].adv)) ELSE w0
         IN  AlignLoop(g1, i + 1, w1, lb, halign, justify, max_text_width, max_width, l1)

\* align_lines(render_priv, max_text_width) on the glyphs g with
\* state.alignment & 3, state.justify and evt_type & EVENT_HSCROLL
align_lines(g, alignment, state_justify, hscroll, max_text_width) ==
    LET justify == IF hscroll THEN alignment ELSE state_justify
        halign == IF hscroll THEN HALIGN_LEFT ELSE alignment
        max_width == AlignMaxWidth(g, 0, RInt(0), RInt(0))
        r == AlignLoop(g, 0, RInt(0), -1, halign, justify, max_text_width,
                       max_width, <<>>)
    IN  [g |-> r.g, lines |-> r.lines, max_width |-> max_width]

-----------------------------------------------------------------------------
(* SpecAlign: align_lines applied to one wrapped text *)

\* a letter, a wide letter, a skipped blank, a newline: symbol, advance, skip
AlignKinds == { <<"a", 1, FALSE>>, <<"W", 4, FALSE>>, <<" ", 1, TRUE>>,
                <<"\n", 1, FALSE>> }

AlignGlyph(kind, linebreak, pos_x) ==
    [symbol |-> kind[1], adv |-> kind[2], skip |-> kind[3],
     linebreak |-> linebreak, pos_x |-> pos_x]

\* the glyphs of a line follow each other from pen position 0, as
\* wrap_lines_smart leaves them
RECURSIVE AlignPens(_, _, _)
AlignPens(q, k, pen) ==
    IF k > Len(q) THEN <<>>
    ELSE LET p == IF q[k][2] # 0 THEN 0 ELSE pen
         IN  <<AlignGlyph(q[k][1], q[k][2], p)>>
             \o AlignPens(q, k + 1, p + q[k][1][2])

AlignTexts ==
    UNION { { AlignPens(q, 1, 0) :
                q \in { f \in [1..n -> AlignKinds \X {0, 1}] : f[1][2] = 0 } } :
            n \in 1..MaxAlignLen }

\* max_text_width in 1/64 pixel: narrower than a wide letter, and wider
\* than the longest line by a whole and by a fractional amount
AlignWidths == { RInt(3), RInt(4 * MaxAlignLen + 1), Rat(8 * MaxAlignLen + 1, 2) }

AlignIdle ==
    /\ al_in = <<>>
    /\ al_alignment = HALIGN_LEFT
    /\ al_justify = 0
    /\ al_hscroll = FALSE
    /\ al_max_text_width = RInt(0)
    /\ al_out = [g |-> <<>>, lines |-> <<>>, max_width |-> RInt(0)]
    /\ al_pc = "idle"

AlignInit == AlignIdle

\* align_lines on some text, alignment and justification
AlignLines ==
    /\ al_pc = "idle"
    /\ \E g \in AlignTexts, alignment \in HALIGN_LEFT..HALIGN_RIGHT,
          justify \in 0..ASS_JUSTIFY_RIGHT, hscroll \in BOOLEAN,
          max_text_width \in AlignWidths :
         /\ al_in' = g
         /\ al_alignment' = alignment
         /\ al_justify' = justify
         /\ al_hscroll' = hscroll
         /\ al_max_text_width' = max_text_width
         /\ al_out' = align_lines(g, alignment, justify, hscroll, max_text_width)
    /\ al_pc' = "aligned"

-----------------------------------------------------------------------------
(* render_and_combine_glyphs, get_bitmap_glyph, the copy loop of ass_glyph_info *)

\* Glyphs are numbered from 1 and have no glyph chained to them (next is
\* NULL).  The outline of a glyph is "null" (info->outline is NULL: the
\* lookup of get_outline_glyph failed or gave an invalid outline), "held"
\* (a reference the glyph owns) or "released" (the pointer is still there,
\* its reference was given back with ass_cache_dec_ref).  A run record is
\* named by its index in combined_bitmaps, from 1; 0 is the NULL pointer.
\* Reallocations are left out: a text has fewer runs than MAX_BITMAPS_INITIAL.

INT_MAX == 2147483647

\* ass_cache_dec_ref on the outline of a glyph
OutlineDecRef(o) == IF o = "held" THEN "released" ELSE o

\* get_bitmap_glyph on glyph gl: its outline afterwards and whether it has
\* a bitmap (info->bm or info->bm_o)
get_bitmap_glyph(gl) ==
    IF gl.outline = "null" \/ gl.symbol = "\n" \/ gl.symbol = "0" \/ gl.skip
    THEN [outline |-> OutlineDecRef(gl.outline), bm |-> FALSE]
    ELSE IF gl.outcome = "quantize_rejected"
    THEN [outline |-> OutlineDecRef(gl.outline), bm |-> FALSE]
    ELSE [outline |-> gl.outline, bm |-> gl.outcome # "no_bitmap"]

IMin(a, b) == IF a < b THEN a ELSE b

\* the loop over the glyphs from glyph i on
RECURSIVE CombineLoop(_, _)
CombineLoop(st, i) ==
    IF i > Len(st.g) THEN st
    ELSE
      LET gl == st.g[i]
          new_run == st.new_run \/ gl.starts_new_run
      IN  IF gl.skip
          THEN CombineLoop([st EXCEPT !.new_run = new_run,
                                      !.g[i].outline = OutlineDecRef(@)], i + 1)
          ELSE IF new_run /\ gl.outcome = "malloc_fails"
          THEN \* the record is set up, its bitmaps are not allocated
               CombineLoop([st EXCEPT !.new_run = TRUE,
                                      !.current_info = st.nb_bitmaps + 1,
                                      !.y[st.nb_bitmaps + 1] = INT_MAX,
                                      !.g[i].outline = OutlineDecRef(@)], i + 1)
          ELSE
            LET cur == IF new_run THEN st.nb_bitmaps + 1 ELSE st.current_info
                nb == IF new_run THEN st.nb_bitmaps + 1 ELSE st.nb_bitmaps
                y0 == IF new_run THEN [st.y EXCEPT ![cur] = INT_MAX] ELSE st.y
                b == get_bitmap_glyph(gl)
                y1 == IF cur # 0 /\ b.bm
                      THEN [y0 EXCEPT ![cur] = IMin(@, gl.pos_y)] ELSE y0
            IN  CombineLoop([st EXCEPT !.new_run = FALSE,
                                       !.current_info = cur,
                                       !.nb_bitmaps = nb,
                                       !.y = y1,
                                       !.loop_null = @ \/ cur = 0,
                                       !.g[i].outline = b.outline], i + 1)

\* render_and_combine_glyphs on the glyphs g; ub says what reading through
\* a NULL current_info in the last loop does: "crash", or "reads" some value
render_and_combine_glyphs(g, ub) ==
    LET st == CombineLoop([g |-> g, new_run |-> TRUE, nb_bitmaps |-> 0,
                           current_info |-> 0, y |-> [r \in 1..Len(g) |-> 0],
                           loop_null |-> FALSE], 1)
        null == Len(g) > 0 /\ st.current_info = 0
    IN  [g |-> st.g, nb_bitmaps |-> st.nb_bitmaps,
         current_info |-> st.current_info, loop_null |-> st.loop_null,
         final_null |-> null,
         crashed |-> null /\ ub = "crash",
         real_pos_y |-> [k \in 1..Len(g) |->
                           IF null THEN 0 ELSE st.y[st.current_info]]]

\* the copy loop of ass_glyph_info: what the outline read through is
GlyphDataReads(g) == [k \in 1..Len(g) |-> g[k].outline]

-----------------------------------------------------------------------------
(* SpecGlyphs: the glyphs of one event through render_and_combine_glyphs  *)
(* and the copy loop of ass_glyph_info                                     *)

\* what happens to a glyph that starts a run or is rendered
GlyphOutcomes == {"ok", "no_bitmap", "quantize_rejected", "malloc_fails"}

GlyphInputs ==
    UNION { [1..n -> [symbol : {"a", "\n", "0"}, skip : BOOLEAN,
                      starts_new_run : BOOLEAN, outline : {"null", "held"},
                      outcome : GlyphOutcomes, pos_y : {0}]] :
            n \in 1..MaxGlyphs }

\* glyph k stands at height k
GlyphsAt(g) == [k \in 1..Len(g) |-> [g[k] EXCEPT !.pos_y = k]]

NoCombined ==
    [g |-> <<>>, nb_bitmaps |-> 0, current_info |-> 0, loop_null |-> FALSE,
     final_null |-> FALSE, crashed |-> FALSE, real_pos_y |-> <<>>]

GlyphsIdle ==
    /\ gl_in = <<>>
    /\ gl_out = NoCombined
    /\ gl_reads = <<>>
    /\ gl_crashed = FALSE
    /\ gl_pc = "idle"

GlyphsInit == GlyphsIdle

\* ass_render_event gets as far as render_and_combine_glyphs
RenderAndCombine ==
    /\ gl_pc = "idle"
    /\ \E g \in GlyphInputs, ub \in {"crash", "reads"} :
         /\ gl_in' = GlyphsAt(g)
         /\ gl_out' = render_and_combine_glyphs(GlyphsAt(g), ub)
         /\ gl_crashed' = gl_out'.crashed
    /\ gl_pc' = "combined"
    /\ UNCHANGED gl_reads

\* ass_glyph_info copies the data of the glyphs of text_info; reading
\* through a NULL outline crashes or reads some value
GlyphInfoCopy ==
    /\ gl_pc = "combined"
    /\ ~gl_crashed
    /\ gl_reads' = GlyphDataReads(gl_out.g)
    /\ \E ub \in {"crash", "reads"} :
         gl_crashed' = (ub = "crash" /\ \E k \in 1..Len(gl_out.g) :
                                           gl_out.g[k].outline = "null")
    /\ gl_pc' = "copied"
    /\ UNCHANGED <<gl_in, gl_out>>

-----------------------------------------------------------------------------
(* SpecDetect: ass_detect_change applied to bounded pairs of lists *)

\* every field takes one of two values
DcVals == {0, 1}

DcImages ==
    { Image(w, h, s, c, b, x, y) :
        w \in DcVals, h \in DcVals, s \in DcVals, c \in DcVals,
        b \in DcVals, x \in DcVals, y \in DcVals }

\* the previous list is made of two images that differ in every field; the
\* current list of any images
DcPrevImages == { Image(0, 0, 0, 0, 0, 0, 0), Image(1, 1, 1, 1, 1, 1, 1) }

DetectIdle ==
    /\ dc_prev = <<>>
    /\ dc_cur = <<>>
    /\ dc_diff = 0
    /\ dc_pc = "idle"

DetectInit ==
    /\ dc_prev \in UNION { [1..n -> DcPrevImages] : n \in 0..DcMaxImgs }
    /\ dc_cur \in UNION { [1..n -> DcImages] : n \in 0..DcMaxImgs }
    /\ dc_diff = 0
    /\ dc_pc = "call"

\* *detect_change = ass_detect_change(priv)
DetectChange ==
    /\ dc_pc = "call"
    /\ dc_diff' = ass_detect_change(dc_prev, dc_cur)
    /\ dc_pc' = "ret"
    /\ UNCHANGED <<dc_prev, dc_cur>>

-----------------------------------------------------------------------------
(* Specifications *)

InitFit == FitInit /\ CollideIdle /\ DetectIdle /\ FrameIdle /\ WrapIdle /\ BlurIdle /\ TransformIdle /\ StyleIdle /\ LifeIdle /\ ShiftIdle /\ AlignIdle /\ GlyphsIdle

NextFit == FitRect /\ UNCHANGED <<collideVars, detectVars, frameVars, wrapVars, blurVars, transformVars, styleVars, lifeVars, shiftVars, alignVars, glyphVars>>

SpecFit == InitFit /\ [][NextFit]_vars

InitCollide == CollideInit /\ FitIdle /\ DetectIdle /\ FrameIdle /\ WrapIdle /\ BlurIdle /\ TransformIdle /\ StyleIdle /\ LifeIdle /\ ShiftIdle /\ AlignIdle /\ GlyphsIdle

NextCollide ==
    \/ FixCollisions /\ UNCHANGED <<fitVars, detectVars, frameVars, wrapVars, blurVars, transformVars, styleVars, lifeVars, shiftVars, alignVars, glyphVars>>
    \/ EndFrame /\ UNCHANGED <<fitVars, detectVars, frameVars, wrapVars, blurVars, transformVars, styleVars, lifeVars, shiftVars, alignVars, glyphVars>>
    \/ Reconfigure /\ UNCHANGED <<fitVars, detectVars, frameVars, wrapVars, blurVars, transformVars, styleVars, lifeVars, shiftVars, alignVars, glyphVars>>

SpecCollide == InitCollide /\ [][NextCollide]_vars

InitDetect == DetectInit /\ FitIdle /\ CollideIdle /\ FrameIdle /\ WrapIdle /\ BlurIdle /\ TransformIdle /\ StyleIdle /\ LifeIdle /\ ShiftIdle /\ AlignIdle /\ GlyphsIdle

NextDetect == DetectChange /\ UNCHANGED <<fitVars, collideVars, frameVars, wrapVars, blurVars, transformVars, styleVars, lifeVars, shiftVars, alignVars, glyphVars>>

SpecDetect == InitDetect /\ [][NextDetect]_vars

InitFrame == FrameInit /\ CollideIdle /\ FitIdle /\ DetectIdle /\ WrapIdle /\ BlurIdle /\ TransformIdle /\ StyleIdle /\ LifeIdle /\ ShiftIdle /\ AlignIdle /\ GlyphsIdle

\* of the collision resolver's variables a frame changes event_priv only
frameOther == <<eimgs_in, eimgs, used, used_by, priv_in, fc_pc>>

NextFrame ==
    \/ RenderFrame /\ UNCHANGED <<fitVars, detectVars, frameOther, wrapVars, blurVars, transformVars, styleVars, lifeVars, shiftVars, alignVars, glyphVars>>
    \/ RenderFrameRejected /\ UNCHANGED <<fitVars, detectVars, frameOther, wrapVars, blurVars, transformVars, styleVars, lifeVars, shiftVars, alignVars, glyphVars>>
    \/ FrameReturn /\ UNCHANGED <<fitVars, detectVars, frameOther, wrapVars, blurVars, transformVars, styleVars, lifeVars, shiftVars, alignVars, glyphVars>>

SpecFrame == InitFrame /\ [][NextFrame]_vars

InitWrap == WrapInit /\ FitIdle /\ CollideIdle /\ DetectIdle /\ FrameIdle /\ BlurIdle /\ TransformIdle /\ StyleIdle /\ LifeIdle /\ ShiftIdle /\ AlignIdle /\ GlyphsIdle

wrapOther == <<fitVars, collideVars, detectVars, frameVars, blurVars, transformVars, styleVars, lifeVars, shiftVars, alignVars, glyphVars>>

NextWrap ==
    \/ LayoutText /\ UNCHANGED wrapOther
    \/ InitialWrap /\ UNCHANGED wrapOther
    \/ BalancePass /\ UNCHANGED wrapOther
    \/ WrapFinish /\ UNCHANGED wrapOther

SpecWrap == InitWrap /\ [][NextWrap]_vars

\* a step of NextWrap can be taken
WrapEnabled ==
    \/ w_pc \in {"idle", "wrap"}
    \/ w_pc = "balance" /\ (w_exit # 0 \/ w_wrap_style = 1 \/ w_passes < MaxPasses)

\* wrap_lines_smart runs on while it has a step to take: WF_vars(NextWrap)
\* with ENABLED <<NextWrap>>_vars written out as WrapEnabled
SpecWrapFair ==
    InitWrap /\ [][NextWrap]_vars /\ ([]<>(~WrapEnabled) \/ []<><<NextWrap>>_vars)

InitBlur == BlurInit /\ FitIdle /\ CollideIdle /\ DetectIdle /\ FrameIdle /\ WrapIdle /\ TransformIdle /\ StyleIdle /\ LifeIdle /\ ShiftIdle /\ AlignIdle /\ GlyphsIdle

NextBlur ==
    NewRunFilter /\ UNCHANGED <<fitVars, collideVars, detectVars, frameVars, wrapVars, transformVars, styleVars, lifeVars, shiftVars, alignVars, glyphVars>>

SpecBlur == InitBlur /\ [][NextBlur]_vars

InitTransform == TransformInit /\ FitIdle /\ CollideIdle /\ DetectIdle /\ FrameIdle /\ WrapIdle /\ BlurIdle /\ StyleIdle /\ LifeIdle /\ ShiftIdle /\ AlignIdle /\ GlyphsIdle

NextTransform ==
    QuantizeAndRestore
        /\ UNCHANGED <<fitVars, collideVars, detectVars, frameVars, wrapVars, blurVars, styleVars, lifeVars, shiftVars, alignVars, glyphVars>>

SpecTransform == InitTransform /\ [][NextTransform]_vars

InitStyle == StyleInit /\ FitIdle /\ CollideIdle /\ DetectIdle /\ FrameIdle /\ WrapIdle /\ BlurIdle /\ TransformIdle /\ LifeIdle /\ ShiftIdle /\ AlignIdle /\ GlyphsIdle

NextStyle ==
    SelectStyle
        /\ UNCHANGED <<fitVars, collideVars, detectVars, frameVars, wrapVars, blurVars, transformVars, lifeVars, shiftVars, alignVars, glyphVars>>

SpecStyle == InitStyle /\ [][NextStyle]_vars

InitLife == LifeInit /\ FitIdle /\ CollideIdle /\ DetectIdle /\ FrameIdle /\ WrapIdle /\ BlurIdle /\ TransformIdle /\ StyleIdle /\ ShiftIdle /\ AlignIdle /\ GlyphsIdle

lifeOther ==
    <<fitVars, collideVars, detectVars, frameVars, wrapVars, blurVars, transformVars, styleVars, shiftVars, alignVars, glyphVars>>

NextLife ==
    \/ StartFrameRejected /\ UNCHANGED lifeOther
    \/ StartFrame /\ UNCHANGED lifeOther
    \/ SkipEvent /\ UNCHANGED lifeOther
    \/ RenderEvent /\ UNCHANGED lifeOther
    \/ FinishRenderFrame /\ UNCHANGED lifeOther
    \/ FinishGlyphInfo /\ UNCHANGED lifeOther
    \/ LifeReturn /\ UNCHANGED lifeOther
    \/ CallerRef /\ UNCHANGED lifeOther
    \/ CallerUnref /\ UNCHANGED lifeOther
    \/ RendererDone /\ UNCHANGED lifeOther

SpecLife == InitLife /\ [][NextLife]_vars

InitShift == ShiftInit /\ FitIdle /\ CollideIdle /\ DetectIdle /\ FrameIdle /\ WrapIdle /\ BlurIdle /\ TransformIdle /\ StyleIdle /\ LifeIdle /\ AlignIdle /\ GlyphsIdle

NextShift ==
    \/ ShiftEvent /\ UNCHANGED <<fitVars, collideVars, detectVars, frameVars, wrapVars, blurVars, transformVars, styleVars, lifeVars, alignVars, glyphVars>>

SpecShift == InitShift /\ [][NextShift]_vars

InitAlign == AlignInit /\ FitIdle /\ CollideIdle /\ DetectIdle /\ FrameIdle /\ WrapIdle /\ BlurIdle /\ TransformIdle /\ StyleIdle /\ LifeIdle /\ ShiftIdle /\ GlyphsIdle

NextAlign ==
    \/ AlignLines /\ UNCHANGED <<fitVars, collideVars, detectVars, frameVars, wrapVars, blurVars, transformVars, styleVars, lifeVars, shiftVars, glyphVars>>

SpecAlign == InitAlign /\ [][NextAlign]_vars

InitGlyphs == GlyphsInit /\ FitIdle /\ CollideIdle /\ DetectIdle /\ FrameIdle /\ WrapIdle /\ BlurIdle /\ TransformIdle /\ StyleIdle /\ LifeIdle /\ ShiftIdle /\ AlignIdle

NextGlyphs ==
    \/ RenderAndCombine /\ UNCHANGED <<fitVars, collideVars, detectVars, frameVars, wrapVars, blurVars, transformVars, styleVars, lifeVars, shiftVars, alignVars>>
    \/ GlyphInfoCopy /\ UNCHANGED <<fitVars, collideVars, detectVars, frameVars, wrapVars, blurVars, transformVars, styleVars, lifeVars, shiftVars, alignVars>>

SpecGlyphs == InitGlyphs /\ [][NextGlyphs]_vars

-----------------------------------------------------------------------------
(* C1 - C3: the collision resolver *)

Max2(a, b) == IF a > b THEN a ELSE b
Min2(a, b) == IF a < b THEN a ELSE b

\* the two boxes share a region of positive area (overlap() also answers 1
\* for an empty box that lies inside the other one)
PositiveOverlap(a, b) ==
    /\ Max2(a.x0, b.x0) < Min2(a.x1, b.x1)
    /\ Max2(a.y0, b.y0) < Min2(a.y1, b.y1)

\* the final box of slot i is the rectangle recorded for its event
BoxIsRecord(i) ==
    EventRect(eimgs[i]) = PrivRect(event_priv[eimgs[i].event])

\* C1 as stated: after fix_collisions no two event boxes of the group overlap
\* with positive area, whatever the input boxes and the records carried over.
C1_NoOverlapAtAll ==
    fc_pc = "fixed" =>
        \A i, j \in 1..Len(eimgs) :
            i < j => ~PositiveOverlap(EventRect(eimgs[i]), EventRect(eimgs[j]))

\* C1 amended: after fix_collisions no two boxes overlap with positive area
\* among the events that have detect_collisions on and whose box is the
\* rectangle recorded for the event (its top and height always are; its left
\* and width are unless the event moved sideways since it was recorded).
C1_NoOverlapAmongPlaced ==
    fc_pc = "fixed" =>
        \A i, j \in 1..Len(eimgs) :
            ( /\ i < j
              /\ eimgs[i].detect_collisions /\ eimgs[j].detect_collisions
              /\ eimgs[i].left = event_priv[eimgs[i].event].left
              /\ eimgs[i].width = event_priv[eimgs[i].event].width
              /\ eimgs[j].left = event_priv[eimgs[j].event].left
              /\ eimgs[j].width = event_priv[eimgs[j].event].width )
            => ~PositiveOverlap(EventRect(eimgs[i]), EventRect(eimgs[j]))

\* two events with detection on came in overlapping, one of them was moved,
\* and both boxes are the recorded rectangles
C1_Witness ==
    /\ fc_pc = "fixed"
    /\ \E i, j \in 1..Len(eimgs) :
        /\ i < j
        /\ Participates(eimgs_in[i]) /\ Participates(eimgs_in[j])
        /\ overlap(EventRect(eimgs_in[i]), EventRect(eimgs_in[j]))
        /\ eimgs[j].top # eimgs_in[j].top
        /\ BoxIsRecord(i) /\ BoxIsRecord(j)

\* C2: an event whose detect_collisions flag is off is not touched by
\* fix_collisions: its top and its images (dst_y, h, bitmap) are as they came
\* in, its record is not written and its box is not put into used[].
C2_DisabledUntouched ==
    fc_pc = "fixed" =>
        \A i \in 1..Len(eimgs) :
            ~eimgs_in[i].detect_collisions =>
                /\ eimgs[i] = eimgs_in[i]
                /\ event_priv[eimgs[i].event] = priv_in[eimgs[i].event]
                /\ eimgs[i].event \notin used_by

\* an event with detection off and a record from an earlier frame lies across
\* the box of an event that takes part
C2_Witness ==
    /\ fc_pc = "fixed"
    /\ \E i, j \in 1..Len(eimgs) :
        /\ ~eimgs_in[i].detect_collisions
        /\ eimgs_in[i].height > 0
        /\ priv_in[eimgs_in[i].event] # NoPriv
        /\ priv_in[eimgs_in[i].event].top # eimgs_in[i].top
        /\ Participates(eimgs_in[j])
        /\ overlap(EventRect(eimgs_in[i]), EventRect(eimgs_in[j]))

\* the free box of SpecFit moved by d
FitMoved(d) == Rect(fit_s.x0, fit_s.y0 + d, fit_s.x1, fit_s.y1 + d)

\* the free box moved by d overlaps no fixed box
FitClear(d) == \A k \in 1..Len(fit_fixed) : ~overlap(FitMoved(d), fit_fixed[k])

\* how often box r occurs in the list rs
FitCount(rs, r) == Cardinality({ k \in 1..Len(rs) : rs[k] = r })

\* C3: for a fixed list sorted by top edge and pairwise non-overlapping,
\* fit_rect returns the shift of smallest magnitude in the preferred direction
\* after which the box overlaps no fixed box; the shift is 0 exactly when the
\* box overlaps none where it is; when one fixed box overlaps and the place
\* next to it is free the box is moved by exactly that much; the moved box is
\* added to the list, which stays sorted by top edge.
C3_FitRectMinimalShift ==
    fit_pc = "ret" =>
        /\ (fit_dir = 1 => fit_shift >= 0)
        /\ (fit_dir = -1 => fit_shift <= 0)
        /\ FitClear(fit_shift)
        /\ \A d \in 0..(fit_shift - 1) : ~FitClear(d)
        /\ \A d \in (fit_shift + 1)..0 : ~FitClear(d)
        /\ (fit_shift = 0 <=> FitClear(0))
        /\ \A k \in 1..Len(fit_fixed) :
            LET clear == IF fit_dir = 1 THEN fit_fixed[k].y1 - fit_s.y0
                         ELSE fit_fixed[k].y0 - fit_s.y1
            IN  ( /\ overlap(fit_s, fit_fixed[k])
                  /\ \A m \in 1..Len(fit_fixed) : m # k => ~overlap(fit_s, fit_fixed[m])
                  /\ FitClear(clear) )
                => fit_shift = clear
        /\ Len(fit_out) = Len(fit_fixed) + 1
        /\ SortedY0(fit_out)
        /\ \A k \in 1..Len(fit_out) :
            FitCount(fit_out, fit_out[k]) =
                FitCount(fit_fixed, fit_out[k])
                + (IF fit_out[k] = FitMoved(fit_shift) THEN 1 ELSE 0)

\* the box overlapped one fixed box, and clearing it ran it into a second
C3_Witness ==
    /\ fit_pc = "ret"
    /\ Len(fit_fixed) = 2
    /\ \E k, m \in 1..2 :
        /\ k # m
        /\ overlap(fit_s, fit_fixed[k])
        /\ ~overlap(fit_s, fit_fixed[m])
        /\ fit_shift = (IF fit_dir = 1 THEN fit_fixed[m].y1 - fit_s.y0
                        ELSE fit_fixed[m].y0 - fit_s.y1)

-----------------------------------------------------------------------------
(* C5: ass_detect_change *)

\* the two images agree in w, h, stride, color and bitmap
SameContent(a, b) ==
    /\ a.w = b.w /\ a.h = b.h /\ a.stride = b.stride
    /\ a.color = b.color /\ a.bitmap = b.bitmap

\* the two images agree in dst_x and dst_y
SamePosition(a, b) == a.dst_x = b.dst_x /\ a.dst_y = b.dst_y

\* C5: ass_detect_change answers 0 iff the lists are equally long and every
\* pair of corresponding images agrees in content and position; 1 iff they
\* are equally long, every pair agrees in content and some pair differs in
\* position; 2 otherwise, in particular when the lengths differ.
C5_DetectChangeClasses ==
    dc_pc = "ret" =>
        LET same_len == Len(dc_prev) = Len(dc_cur)
            content == \A k \in 1..Len(dc_prev) : SameContent(dc_prev[k], dc_cur[k])
            position == \A k \in 1..Len(dc_prev) : SamePosition(dc_prev[k], dc_cur[k])
        IN  /\ dc_diff \in {0, 1, 2}
            /\ (dc_diff = 0 <=> (same_len /\ content /\ position))
            /\ (dc_diff = 1 <=> (same_len /\ content /\ ~position))
            /\ (~same_len => dc_diff = 2)

\* two lists of two images, the first pair identical, the second moved only
C5_Witness ==
    /\ dc_pc = "ret"
    /\ Len(dc_prev) = 2 /\ Len(dc_cur) = 2
    /\ dc_prev[1] = dc_cur[1]
    /\ SameContent(dc_prev[2], dc_cur[2]) /\ ~SamePosition(dc_prev[2], dc_cur[2])
    /\ dc_diff = 1


-----------------------------------------------------------------------------
(* Claims C4, C6: ass_render_frame *)

\* C4: every slot ass_render_frame sorts, passes to fix_collisions and
\* concatenates was written by the ass_render_event call that returned true
\* for it: the k-th slot read after the loop holds the k-th rendered event.
C4_SlotsWritten ==
    fr_pc = "done" =>
        \A k \in 1..Len(fr_rendered) : fr_slot_event[k] = fr_rendered[k]

ShownAt(i, now) ==
    track[i].Start <= now /\ now < track[i].Start + track[i].Duration

\* C6 as stated: after any call, the events ass_render_event was called on
\* are exactly those with Start <= now < Start + Duration, in track order.
C6_ActiveAttempted ==
    fr_pc = "done" =>
        /\ \A i \in 1..Len(track) :
              (\E k \in 1..Len(fr_attempted) : fr_attempted[k] = i) <=> ShownAt(i, fr_now)
        /\ \A j, k \in 1..Len(fr_attempted) : j < k => fr_attempted[j] < fr_attempted[k]

\* C6, amended: the same, for the calls whose frame ass_start_frame accepts.
C6_ActiveAttemptedWhenAccepted ==
    (fr_pc = "done" /\ StartFrameAccepts(settings, track)) =>
        /\ \A i \in 1..Len(track) :
              (\E k \in 1..Len(fr_attempted) : fr_attempted[k] = i) <=> ShownAt(i, fr_now)
        /\ \A j, k \in 1..Len(fr_attempted) : j < k => fr_attempted[j] < fr_attempted[k]

\* an accepted frame at the very end of the first event's interval and the
\* very start of the second's: only the second is attempted
C6_Witness ==
    /\ fr_pc = "done"
    /\ StartFrameAccepts(settings, track)
    /\ Len(track) = 2
    /\ track[1].Duration > 0
    /\ track[1].Start + track[1].Duration = fr_now
    /\ track[2].Start = fr_now
    /\ fr_attempted = <<2>>

-----------------------------------------------------------------------------
(* Claims C7 - C10: wrap_lines_smart *)

\* the glyphs that start a line after the first, and the soft ones of them
Breaks(g) == { k \in 1..Len(g) : g[k].linebreak # 0 }
SoftBreaks(g) == { k \in 1..Len(g) : g[k].linebreak = 1 }

\* the sum of the positions text_info->glyphs + i of a set of glyphs
RECURSIVE IndexSum(_)
IndexSum(S) ==
    IF S = {} THEN 0
    ELSE LET k == CHOOSE x \in S : TRUE IN (k - 1) + IndexSum(S \ {k})

\* the lines of g as pairs <<first glyph, last glyph>>
LineStarts(g) == {1} \cup Breaks(g)
LineEndOf(g, a) ==
    IF \E b \in Breaks(g) : b > a
    THEN (CHOOSE b \in Breaks(g) : b > a /\ \A c \in Breaks(g) : c > a => b <= c) - 1
    ELSE Len(g)

\* the width of the line that starts at glyph a, measured as the balancing
\* loop measures l1 and l2
LineWidth(g, a) == GlyphEnd(g, LineEndOf(g, a)) - GlyphStart(g, a)

MaxWidthDiff(g) ==
    CHOOSE d \in 0..(Len(g) * (WideAdv + NarrowAdv)) :
        /\ \A a, b \in LineStarts(g) : DIFF(LineWidth(g, a), LineWidth(g, b)) <= d
        /\ \E a, b \in LineStarts(g) : DIFF(LineWidth(g, a), LineWidth(g, b)) = d

\* C7: the balancing loop of wrap_lines_smart terminates: a scan in which no
\* word is moved comes, and wrap_lines_smart runs to its end.
C7_BalanceTerminates == <>(w_pc = "done")

\* a text whose balancing moved words in two passes before the scan that
\* moved none
C7_Witness == w_pc = "done" /\ w_passes = 3 /\ w_moves = 2 /\ w_exit = 1

\* C8 as stated: the balancing loop makes no more passes than step 1 set
\* soft breaks.
C8_PassesWithinSoftBreaks ==
    w_pc \in {"balance", "done"} => w_passes <= Cardinality(SoftBreaks(w_after_wrap))

\* C8, amended: the balancing loop makes at most one pass more than the sum
\* of the glyph indices of the soft breaks step 1 set; a text without soft
\* breaks gets one pass.
C8_PassesWithinBreakIndices ==
    w_pc \in {"balance", "done"} => w_passes <= 1 + IndexSum(SoftBreaks(w_after_wrap))

\* one soft break, moved left in two passes: three passes in all
C8_Witness ==
    /\ w_pc = "done"
    /\ Cardinality(SoftBreaks(w_after_wrap)) = 1
    /\ w_passes = 3

Newlines(g) == { k \in 1..Len(g) : g[k].symbol = "\n" }

OneNewlineNoSoftWrap ==
    /\ w_pc = "done"
    /\ Cardinality(Newlines(w_glyphs)) = 1
    /\ SoftBreaks(w_after_wrap) = {}

TwoLineHeight ==
    w_lines[1].asc + w_lines[1].desc + w_lines[2].asc + w_lines[2].desc + w_line_spacing

\* C10 as stated: one newline code and no soft wrap give two lines and the
\* height of two lines and one line spacing, wherever the newline stands.
C10_TwoLines ==
    OneNewlineNoSoftWrap => (w_n_lines = 2 /\ w_height = TwoLineHeight)

\* C10, amended: the same wherever the newline stands but at the end of the
\* text; a newline that is the last glyph starts no line, and the height is
\* that of the one line.
C10_TwoLinesUnlessLast ==
    OneNewlineNoSoftWrap =>
        IF Len(w_glyphs) \notin Newlines(w_glyphs)
        THEN w_n_lines = 2 /\ w_height = TwoLineHeight
        ELSE w_n_lines = 1 /\ w_height = w_lines[1].asc + w_lines[1].desc

\* a newline in the middle of a text, with line spacing
C10_Witness ==
    /\ OneNewlineNoSoftWrap
    /\ Len(w_glyphs) = 3 /\ Newlines(w_glyphs) = {2}
    /\ w_line_spacing > 0
    /\ w_n_lines = 2

-----------------------------------------------------------------------------
(* Claim C11: line break markers and n_lines *)

\* C11: after the initial wrap, after every balancing move and after every
\* pass, n_lines is 1 plus the number of glyphs with a non-zero linebreak
\* marker, the first glyph carries no marker and n_lines >= 1; and the
\* assertion cur_line == n_lines - 1 of measure_text holds.
C11_MarkersMatchLineCount ==
    w_pc \in {"balance", "done"} =>
        /\ w_n_lines = 1 + Cardinality(Breaks(w_glyphs))
        /\ 1 \notin Breaks(w_glyphs)
        /\ w_n_lines >= 1
        /\ w_counted
        /\ w_assert_ok

\* a text of three lines whose first line was its only word: the move to the
\* text start took a line away, and measure_text ran
C11_Witness ==
    /\ w_pc = "done"
    /\ Cardinality(Breaks(w_after_wrap)) = 2
    /\ w_emptied /\ w_moves > 0
    /\ w_n_lines = 2

-----------------------------------------------------------------------------
(* Claim C14: blur radius 0 *)

ZeroBlurRun == bl_pc = "run" /\ bl_radius = RInt(0)

\* C14 as stated: quantize_blur applied to radius 0 returns index 0 and
\* stores the shadow mask 0, so that the shadow offsets of the run are kept
\* at their full 1/64 pixel resolution.
C14_ZeroBlurZeroMask ==
    ZeroBlurRun =>
        /\ bl_filter.blur = 0
        /\ bl_mask = 0
        /\ bl_filter.shadow = bl_x

\* C14 amended: quantize_blur applied to radius 0 returns index 0 and stores
\* the shadow mask 2^3 - 1 = 7 (POSITION_PRECISION - 1), so that the shadow
\* offsets of the run are rounded to multiples of 8/64 pixel, at most 4/64
\* pixel away from the exact offset.
C14_ZeroBlurMaskSeven ==
    ZeroBlurRun =>
        /\ bl_filter.blur = 0
        /\ bl_mask = POSITION_PRECISION - 1
        /\ \A i \in 1..2 :
             /\ bl_filter.shadow[i] % POSITION_PRECISION = 0
             /\ IAbs(bl_filter.shadow[i] - bl_x[i]) <= POSITION_PRECISION \div 2

\* a run without blur whose shadow offset is moved by the rounding
C14_Witness ==
    /\ ZeroBlurRun
    /\ bl_filter.flags_shadow
    /\ bl_x = <<4, -6>>
    /\ bl_filter.shadow = <<0, -8>>

-----------------------------------------------------------------------------
(* Claims C12, C13: the transform quantizer *)

Accepted == qt_pc = "done" /\ qt_out.ret

\* the multiple of POSITION_PRECISION taken for "a small multiple"
BudgetMultiple == 4

\* the image of p under the matrix handed in, relative to the whole pixel
\* position pos, is within the budget of its image under the restored matrix
WithinBudget(p) ==
    /\ RLt(RInt(0), ZAt(qt_m, p))
    /\ RLt(RInt(0), ZAt(qt_restored.m, p))
    /\ \A i \in 0..1 :
         RLe(fabs(RSub(RSub(ImageAt(qt_m, p)[i],
                            RInt(64 * qt_out.key.pos[i + 1])),
                       ImageAt(qt_restored.m, p)[i])),
             RInt(BudgetMultiple * POSITION_PRECISION))

\* C12: for every transform quantize_transform accepts, the matrix made by
\* restore_transform from the key maps every point of the padded box to
\* within a small multiple of POSITION_PRECISION of its image under the
\* original transform taken relative to the whole-pixel position.
C12_RoundTripWithinBudget ==
    Accepted =>
        /\ qt_restored.finite
        /\ \A p \in BoxPoints(qt_bbox) : WithinBudget(p)

\* a glyph scaled to nothing is accepted with a key whose matrix is zero
C12_ZeroScaleAccepted ==
    /\ Accepted
    /\ qt_m[2][2] = RInt(1)
    /\ qt_out.key.matrix_x = <<0, 0>>
    /\ qt_out.key.matrix_y = <<0, 0>>
    /\ ~qt_restored.finite

\* |v| is not below 1,000,000
NotBelowMillion(v) == ~RLt(fabs(v), RInt(1000000))

BehindCamera == RLe(Recentre(qt_m, qt_bbox)[2][2], RInt(0))

\* the matrix with both origins at the centre of the box, as lines 246-259
\* leave it when the transform is not behind the camera
Centred ==
    LET m1 == Recentre(qt_m, qt_bbox)
    IN  Uncentre(m1, Center(m1))

CentreOutOfRange ==
    LET sc == ScaledCenter(Center(Recentre(qt_m, qt_bbox)), qt_offset, qt_first)
    IN  \E i \in 0..1 : NotBelowMillion(sc[i])

AffineOutOfRange ==
    \E i \in 0..1, j \in 0..1 :
        NotBelowMillion(AffineVals(Centred, qt_bbox)[i][j])

PerspOutOfRange ==
    LET val == AffineVals(Centred, qt_bbox)
        qm == [i \in 0..1 |-> [j \in 0..1 |-> lrint(val[i][j])]]
    IN  \E j \in 0..1 : NotBelowMillion(PerspVals(Centred, qt_bbox, qm)[j])

StoredWithinMillion ==
    /\ \A f \in {"matrix_x", "matrix_y", "matrix_z"}, j \in 1..2 :
         IAbs(qt_out.key[f][j]) <= 1000000
    /\ \A i \in 1..2 :
         IAbs(qt_out.key.pos[i] * Pow2(SUBPIXEL_ORDER) + qt_out.key.offset[i])
             <= 1000000

\* C13: quantize_transform fails if and only if the transform is behind the
\* camera at the centre of the box, or a scaled centre coordinate or one of
\* the six scaled coefficients is not below 1,000,000 in absolute value; and
\* whenever it succeeds every quantized coefficient and centre coordinate it
\* stores is at most 1,000,000 in absolute value.
C13_FailureIffOutOfRange ==
    qt_pc = "done" =>
        /\ ~qt_out.ret <=>
             (BehindCamera \/ CentreOutOfRange \/ AffineOutOfRange
                 \/ PerspOutOfRange)
        /\ qt_out.ret => StoredWithinMillion

\* a transform rejected for a coefficient of the row z only
C13_Witness ==
    /\ qt_pc = "done"
    /\ qt_out.at = "persp"
    /\ ~BehindCamera /\ ~CentreOutOfRange /\ ~AffineOutOfRange
    /\ PerspOutOfRange

-----------------------------------------------------------------------------
(* Claims C15, C16: selective style overrides *)

StyleFields == DOMAIN ScriptStyle

\* the override category of a field, "none" for a field no bit covers
CategoryOf(f) ==
    IF f \in {"FontSize", "Spacing", "ScaleX", "ScaleY"} THEN "FONT_SIZE_FIELDS"
    ELSE IF f \in {"FontName", "treat_fontname_as_pattern"} THEN "FONT_NAME"
    ELSE IF f \in {"PrimaryColour", "SecondaryColour", "OutlineColour",
                   "BackColour"} THEN "COLORS"
    ELSE IF f \in {"Bold", "Italic", "Underline", "StrikeOut"} THEN "ATTRIBUTES"
    ELSE IF f \in {"BorderStyle", "Outline", "Shadow"} THEN "BORDER"
    ELSE IF f = "Alignment" THEN "ALIGNMENT"
    ELSE IF f = "Justify" THEN "JUSTIFY"
    ELSE IF f \in {"MarginL", "MarginR", "MarginV"} THEN "MARGINS"
    ELSE "none"

\* the category bit of f is requested, by itself or through the STYLE bit
CategoryRequested(f) ==
    \/ CategoryOf(f) \in so_requested
    \/ /\ "STYLE" \in so_requested
       /\ CategoryOf(f) \in {"FONT_NAME", "FONT_SIZE_FIELDS", "COLORS",
                             "BORDER", "ATTRIBUTES"}

BaseStyle == IF so_rstyle = <<>> THEN ScriptStyle ELSE so_rstyle[1]

SizeClass == {"FontSize", "Spacing", "Outline", "Shadow"}

Rescaled(f) == RMul(so_user[f], Rat(so_PlayResY, 288))

\* what a requested category stores for f
UserValue(f) ==
    IF f \in SizeClass THEN Rescaled(f)
    ELSE IF f = "FontName" /\ so_user.FontName = "NULL" THEN BaseStyle.FontName
    ELSE so_user[f]

ExplicitKeepsBase ==
    (so_pc = "done" /\ so_explicit) =>
        /\ \A f \in StyleFields : so_state.style[f] = BaseStyle[f]
        /\ so_state.overrides = {}

\* C15 as stated: without the full-style bit every field of the effective
\* style is the user style's value when the event is not explicitly
\* positioned and the category of the field is requested, and the script (or
\* reset) style's value otherwise; on an explicitly positioned event every
\* field is the script (or reset) style's and state.overrides is 0.
C15_FieldsGated ==
    /\ (so_pc = "done" /\ "FULL_STYLE" \notin so_requested) =>
          \A f \in StyleFields :
              so_state.style[f] =
                  IF ~so_explicit /\ CategoryRequested(f)
                  THEN so_user[f] ELSE BaseStyle[f]
    /\ ExplicitKeepsBase

\* C15 amended: as C15, the value a requested category stores being the user
\* style's value multiplied by PlayResY / 288 for FontSize, Spacing, Outline
\* and Shadow, the script (or reset) style's FontName when the user style
\* has none, and the user style's value for every other field.
C15_FieldsGatedScaledNamed ==
    /\ (so_pc = "done" /\ "FULL_STYLE" \notin so_requested) =>
          \A f \in StyleFields :
              so_state.style[f] =
                  IF ~so_explicit /\ CategoryRequested(f)
                  THEN UserValue(f) ELSE BaseStyle[f]
    /\ ExplicitKeepsBase

\* the STYLE bit on a script of another resolution, no user font name
C15_Witness ==
    /\ so_pc = "done" /\ ~so_explicit
    /\ so_requested = {"STYLE", "MARGINS"}
    /\ so_PlayResY = 576
    /\ so_user.FontName = "NULL"
    /\ so_rstyle # <<>>
    /\ so_state.style.FontName = "ResetFont"
    /\ so_state.style.FontSize = RInt(60)
    /\ so_state.style.MarginV = 33
    /\ so_state.style.Alignment = 2

\* the bitmask brings the user style's value of f into the effective style
UserValueBroughtIn(f) ==
    so_pc = "done" /\ ~so_explicit
        /\ (CategoryRequested(f) \/ "FULL_STYLE" \in so_requested)

-----------------------------------------------------------------------------
(* Claim C17                                                               *)

\* the call of ass_render_event before call k of this frame left cnt at
CntBefore(k) == IF k = 1 THEN 0 ELSE lf_events[k - 1].cnt

\* the events of the track shown at lf_now, in track order
ShownEvents ==
    SelectSeq([i \in 1..Len(lf_track) |-> i],
              LAMBDA i : /\ lf_track[i].Start <= lf_now
                         /\ lf_now < lf_track[i].Start + lf_track[i].Duration)

\* call k is on an event that cannot be rendered
CannotRender(k) ==
    LET r == lf_events[k]
        ev == lf_track[r.event]
    IN  \/ ev.Style >= NStyles
        \/ ev.Text = "NULL"
        \/ ~r.parses
        \/ ev.Text = "comment"
        \/ ~r.shapes

\* C17: an event that cannot be rendered (style index out of range, NULL
\* text, no glyph parsed, parse_events failing, shaping failing) makes
\* ass_render_event return false and leaves cnt as it was; for a style out
\* of range or a NULL text the render context is as before the call; and
\* when the loop is over ass_render_event was called on every shown event
\* of the track, in order, whatever the earlier calls returned.
C17_UnrenderableSkipped ==
    /\ \A k \in 1..Len(lf_events) :
         LET r == lf_events[k]
             ev == lf_track[r.event]
         IN  /\ CannotRender(k) => ~r.ret /\ r.cnt = CntBefore(k)
             /\ ~CannotRender(k) => r.ret /\ r.cnt = CntBefore(k) + 1
             /\ (ev.Style >= NStyles \/ ev.Text = "NULL") => r.after = r.before
    /\ (lf_pc = "done" /\ lf_cuts # <<>>) =>
         /\ [k \in 1..Len(lf_events) |-> lf_events[k].event] = ShownEvents
         /\ lf_cnt = IF lf_events = <<>> THEN 0
                     ELSE lf_events[Len(lf_events)].cnt

\* a frame in which a NULL text or a style out of range met a render
\* context that held glyphs, and the event after it was rendered
C17_Witness ==
    /\ lf_pc = "done"
    /\ \E k \in 1..Len(lf_events) :
         /\ k < Len(lf_events)
         /\ LET ev == lf_track[lf_events[k].event]
            IN  ev.Style >= NStyles \/ ev.Text = "NULL"
         /\ lf_events[k].before.length > 0
         /\ ~lf_events[k].ret
         /\ lf_events[k + 1].ret
         /\ lf_cnt = 1

-----------------------------------------------------------------------------
(* Claim C18                                                               *)

\* the caches cut so far in this call, in order
CachesCut == [k \in 1..Len(lf_cuts) |-> lf_cuts[k].cache]

\* C18: in a call whose frame ass_start_frame accepted, from the first
\* iteration of the loop to the return, the caches were cut exactly once
\* each, the composite cache, then the bitmap cache, then the outline
\* cache, all before any ass_render_event of the frame; however many events
\* are rendered no further cut is made; a call whose frame was rejected
\* cut nothing.
C18_CutOncePerAcceptedFrame ==
    /\ (lf_pc \in {"loop", "done"} /\ StartFrameAccepts(lf_settings, lf_track)) =>
         /\ CachesCut = <<"composite", "bitmap", "outline">>
         /\ \A k \in 1..Len(lf_cuts) : lf_cuts[k].rendered = 0
    /\ (lf_pc = "done" /\ ~StartFrameAccepts(lf_settings, lf_track)) =>
         /\ lf_cuts = <<>>
         /\ lf_events = <<>>

\* the second accepted frame returns after two events were rendered
C18_Witness ==
    /\ lf_pc = "done"
    /\ lf_accepted = 2
    /\ Len(lf_events) = 2
    /\ lf_cnt = 2
    /\ Len(lf_cuts) = 3

-----------------------------------------------------------------------------
(* Claim C19                                                               *)

\* a list is freed exactly when the ref_count of its head is zero
FreedAtZero ==
    \A l \in LifeLists :
        lf_lists[l].allocated => (lf_lists[l].freed <=> lf_lists[l].ref_count = 0)

\* ass_frame_ref and ass_frame_unref of NULL change no list
NullIsNoOp ==
    (lf_op[1] \in {"ass_frame_ref", "ass_frame_unref"} /\ lf_op[2] = 0) =>
        lf_lists = lf_op[3]

\* when ass_render_frame returns a list the renderer holds its one
\* reference, and prev_images_root is empty
OneReferenceAtReturn ==
    (lf_pc = "done" /\ lf_api = "ass_render_frame" /\ lf_cuts # <<>>) =>
        /\ lf_prev_root = 0
        /\ lf_ret = lf_root
        /\ lf_root # 0 => lf_lists[lf_root].ref_count = 1

\* a list the caller holds a reference on is not freed, by later frames or
\* by ass_renderer_done
CallerKeepsList ==
    \A l \in LifeLists : lf_caller[l] > 0 => ~lf_lists[l].freed

\* when an accepted frame ends, every list returned by an earlier frame on
\* which the caller holds no reference is freed
FreedByNextFrame ==
    (lf_pc = "done" /\ lf_cuts # <<>>) =>
        \A l \in LifeLists :
            (lf_known[l] > 0 /\ lf_known[l] < lf_accepted /\ lf_caller[l] = 0)
                => lf_lists[l].freed

\* C19: an image list is freed exactly when the ref_count of its head
\* reaches zero; ass_frame_ref and ass_frame_unref do nothing on NULL; when
\* ass_render_frame returns the renderer holds one reference to the list
\* it returns and prev_images_root is NULL; a list the caller took a
\* reference on is not freed by later frames nor by ass_renderer_done; a
\* list without a reference of the caller is freed by the end of the next
\* accepted frame.
C19_FreedAtZeroAndByNextFrame ==
    /\ FreedAtZero
    /\ NullIsNoOp
    /\ OneReferenceAtReturn
    /\ CallerKeepsList
    /\ FreedByNextFrame

-----------------------------------------------------------------------------
(* Claim C20                                                               *)

\* nothing of the render context is held and text_info is empty
Released(ctx) ==
    /\ ctx.length = 0
    /\ ~ctx.font
    /\ ~ctx.family
    /\ ~ctx.clip_drawing_text
    /\ ctx.drawing_texts = 0

\* C20 as stated: whenever ass_render_event has returned, and so when
\* ass_render_frame returns, text_info.length is 0 and the font reference,
\* the family string, the clip drawing text and the drawing texts of the
\* glyphs have been released.
C20_ReleasedAtReturn ==
    /\ \A k \in 1..Len(lf_events) : Released(lf_events[k].after)
    /\ lf_pc = "done" => Released(lf_ctx)

\* ass_render_event got past the tests of the style and of the text
SetUp(k) ==
    LET ev == lf_track[lf_events[k].event]
    IN  ev.Style < NStyles /\ ev.Text # "NULL"

\* C20, amended: the render context is set up anew by every call of
\* ass_render_event that gets past the tests of the style and the text.
\* Such a call releases it (text_info.length 0, nothing held) when it
\* returns false, and when reorder_text fails in it; when it returns true
\* otherwise the context is kept: it belongs to the event, text_info.length
\* is the number of its glyphs, not 0, and the font and the family are
\* held.  When ass_render_frame returns the context
\* is what the last call of ass_render_event left; when ass_glyph_info
\* returns it is released.
C20_KeptAfterRenderedEvent ==
    /\ \A k \in 1..Len(lf_events) :
         LET r == lf_events[k]
         IN  /\ (SetUp(k) /\ ~r.ret) => Released(r.after)
             /\ (r.ret /\ ~r.reorders) => Released(r.after)
             /\ (r.ret /\ r.reorders) =>
                  /\ r.after.event = r.event
                  /\ r.after.length > 0
                  /\ r.after.length = GlyphsOf(lf_track[r.event].Text)
                  /\ r.after.font
                  /\ r.after.family
    /\ (lf_pc = "done" /\ lf_api = "ass_render_frame" /\ lf_events # <<>>) =>
         lf_ctx = lf_events[Len(lf_events)].after
    /\ (lf_pc = "done" /\ lf_api = "ass_glyph_info" /\ lf_cuts # <<>>) =>
         Released(lf_ctx)

\* ass_render_frame returns after two rendered events: the second found
\* the context of the first, and its own context is still there
C20_Witness ==
    /\ lf_pc = "done"
    /\ lf_api = "ass_render_frame"
    /\ Len(lf_events) = 2
    /\ lf_events[1].ret
    /\ lf_events[2].before.length > 0
    /\ lf_events[2].ret
    /\ lf_ctx.length > 0
    /\ lf_ctx.family

-----------------------------------------------------------------------------
(* Claim C26: the grid of the shadow offset *)

\* C26: with the shadow mask 2^ord - 1 that quantize_blur stores, each
\* shadow coordinate of a run with a shadow is a multiple of 2^ord and is at
\* most 2^(ord-1) away from the offset in 1/64 pixel it was rounded from,
\* whether that offset is positive or negative; both coordinates of a run
\* without shadow (FILTER_NONZERO_SHADOW cleared) are 0.
C26_ShadowOnPowerOfTwoGrid ==
    bl_pc = "run" =>
        /\ \E ord \in 0..30 : bl_mask = Pow2(ord) - 1
        /\ bl_filter.flags_shadow =>
             \A i \in 1..2 :
                /\ bl_filter.shadow[i] % (bl_mask + 1) = 0
                /\ IAbs(bl_filter.shadow[i] - bl_x[i]) <= (bl_mask + 1) \div 2
        /\ ~bl_filter.flags_shadow => bl_filter.shadow = <<0, 0>>

\* a blurred run (grid of 16/64 pixel) whose negative shadow offset is
\* rounded away from itself and whose positive one is rounded up
C26_Witness ==
    /\ bl_pc = "run"
    /\ bl_mask = 15
    /\ bl_filter.flags_shadow
    /\ bl_x[1] < 0
    /\ bl_filter.shadow[1] < 0
    /\ bl_filter.shadow[1] # bl_x[1]
    /\ bl_x[2] > 0
    /\ bl_filter.shadow[2] > bl_x[2]

-----------------------------------------------------------------------------
(* Claim C22: what trim_whitespace marks *)

Blank(x) == x.symbol = " " \/ x.symbol = "\n"

\* the glyphs of the line that starts at glyph a which are not skipped
ShownInLine(g, a) == { k \in a..LineEndOf(g, a) : ~g[k].skip }

\* C22: after trim_whitespace every glyph marked skip is a space or a
\* newline and has is_trimmed_whitespace set, no glyph has
\* is_trimmed_whitespace without skip, and in every line that has a glyph
\* other than a space or newline the first and the last glyph not skipped
\* are neither a space nor a newline.
C22_OnlyBlanksTrimmedAtBothEnds ==
    w_pc = "done" =>
        /\ \A k \in 1..Len(w_glyphs) :
             /\ w_glyphs[k].skip => Blank(w_glyphs[k])
             /\ w_glyphs[k].skip <=> w_glyphs[k].is_trimmed_whitespace
        /\ \A a \in LineStarts(w_glyphs) :
             (\E k \in a..LineEndOf(w_glyphs, a) : ~Blank(w_glyphs[k])) =>
                 LET shown == ShownInLine(w_glyphs, a)
                 IN  /\ shown # {}
                     /\ \A k \in shown :
                          ((\A j \in shown : k <= j) \/ (\A j \in shown : j <= k))
                              => ~Blank(w_glyphs[k])

\* a text of two lines, the first with a space kept between two words and
\* a blank trimmed at its end
C22_Witness ==
    /\ w_pc = "done"
    /\ w_n_lines = 2
    /\ \E k \in 3..Len(w_glyphs) :
         /\ w_glyphs[k].linebreak # 0
         /\ w_glyphs[k - 1].skip
         /\ \E j \in 2..(k - 2) : Blank(w_glyphs[j]) /\ ~w_glyphs[j].skip

-----------------------------------------------------------------------------
(* Claim C27: hard breaks and the balancing loop *)

HardBreaks(g) == { k \in 1..Len(g) : g[k].linebreak = 2 }

\* the words before and after the newline code k stand on one line: no
\* glyph from the newline code to the first glyph after it that is not a
\* blank starts a line
RECURSIVE NextWord(_, _)
NextWord(g, k) ==
    IF k <= Len(g) /\ (g[k].symbol = " " \/ g[k].symbol = "\n")
    THEN NextWord(g, k + 1) ELSE k

Merged(g, k) ==
    /\ \E j \in 1..(k - 1) : g[j].symbol # " " /\ g[j].symbol # "\n"
    /\ NextWord(g, k) <= Len(g)
    /\ \A j \in k..NextWord(g, k) : g[j].linebreak = 0

\* no two words with a newline code between them stand on one line
NoMergeAcrossNewline == \A k \in Newlines(w_glyphs) : ~Merged(w_glyphs, k)

\* C27: every glyph whose linebreak marker is 2 after the initial wrap still
\* has the marker 2 after every pass of the balancing loop, and no two
\* words with a newline code between them stand on one line.
C27_HardBreaksKept ==
    w_pc \in {"balance", "done"} =>
        /\ HardBreaks(w_after_wrap) \subseteq HardBreaks(w_glyphs)
        /\ NoMergeAcrossNewline

-----------------------------------------------------------------------------
(* Claim C28: the pen shift at the end of wrap_lines_smart *)

\* C28: the scan for the first glyph not skipped and the pen-shift loop at
\* the end of wrap_lines_smart read and write no glyph at an index >=
\* text_info.length, whatever the text, and the offset and the length of
\* every line are within [0, length].
C28_PenShiftWithinText ==
    w_pc = "done" =>
        /\ ~w_beyond
        /\ \A c \in 1..w_n_lines :
             /\ w_lines[c].offset \in 0..Len(w_glyphs)
             /\ w_lines[c].len \in 0..Len(w_glyphs)

-----------------------------------------------------------------------------
(* Claim C24: shift_event keeps the images inside the frame *)

-----------------------------------------------------------------------------
(* Claim C25: positions carried from frame to frame *)

\* the record event i of the group had when fix_collisions was called
RecordIn(i) == priv_in[eimgs_in[i].event]

\* slot i holds an event that is still fixed: it takes part, its record has
\* the renderer's render_id and the height of its box, and the recorded
\* rectangle overlaps the recorded rectangle of no earlier slot that is
\* still fixed
RECURSIVE StillFixed(_)
StillFixed(i) ==
    /\ Participates(eimgs_in[i])
    /\ RecordIn(i).render_id = render_id
    /\ RecordIn(i).height > 0
    /\ RecordIn(i).height = eimgs_in[i].height
    /\ \A j \in 1..(i - 1) :
         StillFixed(j) => ~overlap(PrivRect(RecordIn(i)), PrivRect(RecordIn(j)))

\* C25: an event that takes part in a frame and is still fixed is shifted
\* to the top its record has, and the record is left as it is.  Every other
\* event that takes part (record of another render_id, which is zeroed and
\* tagged anew; height changed; recorded rectangle overlapping an earlier
\* fixed one; no record yet) is placed anew in the same frame: it is moved
\* from where it came in to a place that overlaps no rectangle of a still
\* fixed event, and its record is the renderer's render_id with this box.
C25_FixedKeepPlaceOthersPlacedAnew ==
    fc_pc = "fixed" =>
        \A i \in 1..Len(eimgs) :
            Participates(eimgs_in[i]) =>
                LET e == eimgs_in[i].event IN
                IF StillFixed(i)
                THEN /\ eimgs[i].top = RecordIn(i).top
                     /\ event_priv[e] = RecordIn(i)
                ELSE /\ event_priv[e].render_id = render_id
                     /\ event_priv[e].top = eimgs[i].top
                     /\ event_priv[e].height = eimgs[i].height
                     /\ event_priv[e].left = eimgs[i].left
                     /\ event_priv[e].width = eimgs[i].width
                     /\ eimgs[i].height = eimgs_in[i].height
                     /\ eimgs[i].left = eimgs_in[i].left
                     /\ \A j \in 1..Len(eimgs) :
                          StillFixed(j) =>
                              ~overlap(EventRect(eimgs[i]), PrivRect(RecordIn(j)))

\* a frame in which one event came in away from its recorded top and was
\* shifted back to it, and the other event had changed its height and was
\* placed anew
C25_Witness ==
    /\ fc_pc = "fixed"
    /\ \E i, j \in 1..Len(eimgs) :
        /\ StillFixed(i)
        /\ eimgs_in[i].top # RecordIn(i).top
        /\ eimgs[i].top = RecordIn(i).top
        /\ Participates(eimgs_in[j])
        /\ RecordIn(j).render_id = render_id
        /\ RecordIn(j).height > 0
        /\ RecordIn(j).height # eimgs_in[j].height
        /\ eimgs[j].top # eimgs_in[j].top

-----------------------------------------------------------------------------
(* Claim C30: a frame that ass_start_frame rejects                         *)

\* the four tests of ass_start_frame on the renderer and the track passed
Rejecting(st, tr) ==
    \/ st.frame_width = 0 /\ st.frame_height = 0
    \/ ~st.fontselect
    \/ ~st.same_library
    \/ Len(tr) = 0

\* C30: a call of ass_render_frame whose frame has both dimensions zero, no
\* font selector, a track of another library or a track without events
\* returns the empty list, writes 2 to the change output if one was passed
\* and leaves images_root, prev_images_root, the renderer's track, time and
\* PAR scale, the render context, the image lists and the caches as they
\* were, so that the list at images_root is still allocated and referenced;
\* every other call, one with exactly one zero dimension among them, goes
\* on into the loop over the events.
C30_RejectedFrameLeavesRenderer ==
    [][(lf_pc = "idle" /\ lf_pc' \in {"loop", "done"}
        /\ lf_api' = "ass_render_frame") =>
         IF Rejecting(lf_settings', lf_track')
         THEN /\ lf_pc' = "done"
              /\ lf_ret' = 0
              /\ lf_change' \in {2, -1}
              /\ lf_cuts' = <<>>
              /\ lf_events' = <<>>
              /\ UNCHANGED <<lf_root, lf_prev_root, lf_priv, lf_ctx, lf_lists>>
              /\ lf_root # 0 =>
                   /\ lf_lists'[lf_root].allocated
                   /\ ~lf_lists'[lf_root].freed
                   /\ lf_lists'[lf_root].ref_count >= 1
         ELSE /\ lf_pc' = "loop"
              /\ lf_priv'.time = lf_now'
              /\ lf_prev_root' = lf_root]_vars

\* a renderer with frame width 0 and frame height 1 rendered a frame that
\* returned a list; the next call, at another time and with a change
\* output, is rejected and has returned: 2 is written, the list is still at
\* images_root and the renderer's time is the one of the frame before
C30_Witness ==
    /\ lf_pc = "done"
    /\ lf_api = "ass_render_frame"
    /\ Rejecting(lf_settings, lf_track)
    /\ lf_settings.frame_width = 0
    /\ lf_settings.frame_height # 0
    /\ lf_accepted = 1
    /\ lf_frames = 2
    /\ lf_root # 0
    /\ lf_lists[lf_root].ref_count = 1
    /\ lf_change = 2
    /\ lf_ret = 0
    /\ lf_priv.time # lf_now
    /\ lf_priv.font_scale_x = RInt(4)

-----------------------------------------------------------------------------
(* Claim C23: the horizontal shift of the lines                            *)

\* the lines align_lines found are the widest ones when their width is max_width
Widest(l) == l.width = al_out.max_width

\* the alignment and the justification in effect: a horizontally scrolling
\* event is left-aligned and justified as its alignment says
EffectiveAlign == IF al_hscroll THEN HALIGN_LEFT ELSE al_alignment
EffectiveJustify == IF al_hscroll THEN al_alignment ELSE al_justify

\* C23: after align_lines every glyph of a line has moved by the line's one
\* shift (rounded to 1/64 pixel) and the lines cover the text; for every
\* alignment and justification each line's extent [shift, shift + width]
\* lies inside the extent of every widest line; the shift of a widest line
\* is 0 when left-aligned, max_text_width - max_width when right-aligned and
\* (max_text_width - max_width) / 2 when centred, whatever the
\* justification; a horizontally scrolling event is shifted as a
\* left-aligned one justified by its alignment: not at all for left, by
\* (max_width - width) / 2 for centre, by max_width - width for right.
C23_LinesShiftedInsideWidest ==
    al_pc = "aligned" =>
        LET lines == al_out.lines
            mw == al_out.max_width
        IN  /\ \A k \in 1..Len(al_in) :
                 \E n \in 1..Len(lines) :
                    /\ lines[n].first <= k /\ k <= lines[n].last
                    /\ al_out.g[k].pos_x = al_in[k].pos_x + lrint(lines[n].shift)
            /\ \A n \in 1..Len(lines) :
                 /\ RLe(lines[n].width, mw)
                 /\ \E m \in 1..Len(lines) : Widest(lines[m])
                 /\ \A m \in 1..Len(lines) :
                      Widest(lines[m]) =>
                        /\ RLe(lines[m].shift, lines[n].shift)
                        /\ RLe(RAdd(lines[n].shift, lines[n].width),
                               RAdd(lines[m].shift, mw))
                 /\ Widest(lines[n]) =>
                      lines[n].shift =
                        IF EffectiveAlign = HALIGN_LEFT THEN RInt(0)
                        ELSE IF EffectiveAlign = HALIGN_RIGHT
                             THEN RSub(al_max_text_width, mw)
                             ELSE RDiv(RSub(al_max_text_width, mw), RInt(2))
                 /\ al_hscroll =>
                      lines[n].shift =
                        IF al_alignment = HALIGN_LEFT THEN RInt(0)
                        ELSE IF al_alignment = HALIGN_RIGHT
                             THEN RSub(mw, lines[n].width)
                             ELSE RDiv(RSub(mw, lines[n].width), RInt(2))

\* a centred text justified to the right, with a widest line and a shorter
\* line that is moved further than the widest one
C23_Witness ==
    /\ al_pc = "aligned"
    /\ ~al_hscroll
    /\ al_alignment = HALIGN_CENTER
    /\ al_justify = ASS_JUSTIFY_RIGHT
    /\ Len(al_out.lines) = 2
    /\ Widest(al_out.lines[1])
    /\ RLt(al_out.lines[2].width, al_out.max_width)
    /\ RLt(al_out.lines[1].shift, al_out.lines[2].shift)
    /\ RLt(RInt(0), al_out.lines[1].shift)
    /\ al_out.g[Len(al_in)].pos_x > al_in[Len(al_in)].pos_x

-----------------------------------------------------------------------------
(* Claim C29: the run record of render_and_combine_glyphs                  *)

\* C29: render_and_combine_glyphs does not read through a NULL run record,
\* neither in the loop over the glyphs nor in the last loop that gives
\* every glyph its real_pos.y, also when every glyph of the event is
\* skipped.
C29_RunRecordReadOnlyWhenStarted ==
    gl_pc # "idle" => ~gl_out.loop_null /\ ~gl_out.final_null

-----------------------------------------------------------------------------
(* Claim C21: the outlines ass_glyph_info reads                            *)

\* C21: every outline the copy loop of ass_glyph_info reads through is a
\* reference the glyph holds: not NULL and not released before.
C21_OutlineHeldWhenRead ==
    gl_pc = "copied" =>
        \A k \in 1..Len(gl_reads) : gl_reads[k] = "held"

====
